---- MODULE Spec2Model ----
(***************************************************************************)
(* ninjaUSB-util: HID keyboard report state machine, exit hotkey detector  *)
(* and the poll loop that drives them.                                     *)
(*                                                                         *)
(* C++ arrays are 0-based, TLA+ sequences 1-based: report_[i] of the code  *)
(* is report_[i+1] here.  A std::optional is a sequence of length 0 or 1.  *)
(***************************************************************************)
EXTENDS Integers, Sequences, FiniteSets, TLC

(* ------------------------------------------------------------------ *)
(* Program constants                                                   *)
(* ------------------------------------------------------------------ *)
KEYBOARD_REPORT_SIZE == 8
CONSUMER_REPORT_SIZE == 2
MODIFIER_BASE == 224
MODIFIER_MAX == 231

KEY_LEFTCTRL == 29
KEY_RIGHTCTRL == 97
KEY_LEFTALT == 56
KEY_RIGHTALT == 100
KEY_H == 35
KEY_A == 30
KEY_MUTE == 113
SIGINT == 2
SIGTERM == 15

(* Linux KEY_* code -> keyboard-page usage, as <<code, usage>> pairs. *)
kKeyboardUsagePairs ==
  {
    <<30, 4>>, <<48, 5>>, <<46, 6>>, <<32, 7>>, <<18, 8>>, <<33, 9>>,
    <<34, 10>>, <<35, 11>>, <<23, 12>>, <<36, 13>>, <<37, 14>>, <<38, 15>>,
    <<50, 16>>, <<49, 17>>, <<24, 18>>, <<25, 19>>, <<16, 20>>, <<19, 21>>,
    <<31, 22>>, <<20, 23>>, <<22, 24>>, <<47, 25>>, <<17, 26>>, <<45, 27>>,
    <<21, 28>>, <<44, 29>>, <<2, 30>>, <<3, 31>>, <<4, 32>>, <<5, 33>>,
    <<6, 34>>, <<7, 35>>, <<8, 36>>, <<9, 37>>, <<10, 38>>, <<11, 39>>,
    <<28, 40>>, <<1, 41>>, <<14, 42>>, <<15, 43>>, <<57, 44>>, <<12, 45>>,
    <<13, 46>>, <<26, 47>>, <<27, 48>>, <<43, 49>>, <<39, 51>>, <<40, 52>>,
    <<41, 53>>, <<51, 54>>, <<52, 55>>, <<53, 56>>, <<58, 57>>, <<59, 58>>,
    <<60, 59>>, <<61, 60>>, <<62, 61>>, <<63, 62>>, <<64, 63>>, <<65, 64>>,
    <<66, 65>>, <<67, 66>>, <<68, 67>>, <<87, 68>>, <<88, 69>>, <<99, 70>>,
    <<70, 71>>, <<119, 72>>, <<110, 73>>, <<102, 74>>, <<104, 75>>, <<111, 76>>,
    <<107, 77>>, <<109, 78>>, <<106, 79>>, <<105, 80>>, <<108, 81>>, <<103, 82>>,
    <<69, 83>>, <<98, 84>>, <<55, 85>>, <<74, 86>>, <<78, 87>>, <<96, 88>>,
    <<79, 89>>, <<80, 90>>, <<81, 91>>, <<75, 92>>, <<76, 93>>, <<77, 94>>,
    <<71, 95>>, <<72, 96>>, <<73, 97>>, <<82, 98>>, <<83, 99>>, <<117, 103>>,
    <<86, 100>>, <<29, 224>>, <<42, 225>>, <<56, 226>>, <<125, 227>>, <<97, 228>>,
    <<54, 229>>, <<100, 230>>, <<126, 231>>, <<139, 101>>, <<116, 102>>, <<142, 104>>,
    <<143, 105>>
  }

kKeyboardUsage ==
  [c \in {p[1] : p \in kKeyboardUsagePairs} |->
      (CHOOSE p \in kKeyboardUsagePairs : p[1] = c)[2]]

(* Linux KEY_* code -> consumer-page usage. *)
kConsumerUsagePairs ==
  {
    <<115, 233>>, <<114, 234>>, <<113, 226>>, <<164, 205>>, <<163, 181>>, <<165, 182>>,
    <<166, 183>>, <<161, 184>>, <<225, 111>>, <<224, 112>>, <<172, 547>>, <<217, 545>>,
    <<158, 548>>, <<159, 549>>, <<173, 551>>, <<156, 554>>
  }

kConsumerUsage ==
  [c \in {p[1] : p \in kConsumerUsagePairs} |->
      (CHOOSE p \in kConsumerUsagePairs : p[1] = c)[2]]

(* Some key code that is in neither table: both lookups return nullopt. *)
KEY_UNMAPPED ==
  CHOOSE c \in 0..255 : c \notin DOMAIN kKeyboardUsage /\ c \notin DOMAIN kConsumerUsage

(* ------------------------------------------------------------------ *)
(* Helper utilities                                                    *)
(* ------------------------------------------------------------------ *)
is_modifier_below_max(hid_code) == hid_code >= MODIFIER_BASE /\ hid_code < MODIFIER_MAX
is_modifier(hid_code) == hid_code >= MODIFIER_BASE /\ hid_code <= MODIFIER_MAX

modifier_bit(hid_code) == (2 ^ (hid_code - MODIFIER_BASE)) % 256

get_keyboard_usage_right_as_left(linux_code) ==
  IF linux_code \in DOMAIN kKeyboardUsage
  THEN <<IF kKeyboardUsage[linux_code] >= MODIFIER_BASE + 4 /\ kKeyboardUsage[linux_code] <= MODIFIER_MAX
         THEN kKeyboardUsage[linux_code] - 4 ELSE kKeyboardUsage[linux_code]>>
  ELSE <<>>

get_keyboard_usage(linux_code) ==
  IF linux_code \in DOMAIN kKeyboardUsage THEN <<kKeyboardUsage[linux_code]>> ELSE <<>>

get_consumer_usage(linux_code) ==
  IF linux_code \in DOMAIN kConsumerUsage THEN <<kConsumerUsage[linux_code]>> ELSE <<>>

(* Bitwise operators on 8-bit values. *)
BitIsSet(m, bit) == (m \div bit) % 2 = 1
BitOr(m, bit) == IF BitIsSet(m, bit) THEN m ELSE (m + bit) % 256
BitAndNot(m, bit) == IF BitIsSet(m, bit) THEN m - bit ELSE m

SetMin(S) == CHOOSE x \in S : \A y \in S : x <= y

ZeroReport == [i \in 1..KEYBOARD_REPORT_SIZE |-> 0]

(* ------------------------------------------------------------------ *)
(* class KeyboardState                                                 *)
(* ------------------------------------------------------------------ *)
KeyboardStateInit ==
  [modifiers_ |-> 0, pressed_keys_ |-> {}, report_ |-> ZeroReport, report_dirty_ |-> TRUE]

(* The range-for of update_report: std::set iterates in ascending order;  *)
(* idx is the C index of the next free byte.                              *)
SetMax(S) == CHOOSE x \in S : \A y \in S : x >= y

RECURSIVE WriteKeysDescending(_, _, _)
WriteKeysDescending(rep, keys, idx) ==
  IF keys = {} THEN rep
  ELSE LET key == SetMax(keys) IN
       IF idx < Len(rep)
       THEN WriteKeysDescending([rep EXCEPT ![idx + 1] = key], keys \ {key}, idx + 1)
       ELSE rep

RECURSIVE WriteKeys(_, _, _)
WriteKeys(rep, keys, idx) ==
  IF keys = {} THEN rep
  ELSE LET key == SetMin(keys) IN
       IF idx < Len(rep)
       THEN WriteKeys([rep EXCEPT ![idx + 1] = key], keys \ {key}, idx + 1)
       ELSE rep

update_report_no_fill(st) ==
  IF ~st.report_dirty_ THEN st
  ELSE [st EXCEPT
          !.report_ = WriteKeys([st.report_ EXCEPT ![1] = st.modifiers_], st.pressed_keys_, 2),
          !.report_dirty_ = FALSE]

update_report(st) ==
  IF ~st.report_dirty_ THEN st
  ELSE [st EXCEPT
          !.report_ = WriteKeys([ZeroReport EXCEPT ![1] = st.modifiers_], st.pressed_keys_, 2),
          !.report_dirty_ = FALSE]

get_report(st) == LET s == update_report(st) IN [st |-> s, ret |-> s.report_]

get_modifiers(st) == st.modifiers_

get_pressed_key_count(st) == Cardinality(st.pressed_keys_)

is_dirty(st) == st.report_dirty_

set_key_state_no_dirty(st, hid_code, pressed) ==
  IF is_modifier(hid_code)
  THEN [st EXCEPT
          !.modifiers_ = IF pressed THEN BitOr(st.modifiers_, modifier_bit(hid_code))
                         ELSE BitAndNot(st.modifiers_, modifier_bit(hid_code))]
  ELSE [st EXCEPT
          !.pressed_keys_ = IF pressed THEN st.pressed_keys_ \cup {hid_code}
                            ELSE st.pressed_keys_ \ {hid_code}]

set_key_state_drop_seventh(st, hid_code, pressed) ==
  IF ~is_modifier(hid_code) /\ pressed /\ Cardinality(st.pressed_keys_) >= 6
  THEN [st EXCEPT !.report_dirty_ = TRUE]
  ELSE [set_key_state_no_dirty(st, hid_code, pressed) EXCEPT !.report_dirty_ = TRUE]

set_key_state_dirty_on_change(st, hid_code, pressed) ==
  LET x == set_key_state_no_dirty(st, hid_code, pressed) IN
  IF x = st THEN st ELSE [x EXCEPT !.report_dirty_ = TRUE]

set_key_state(st, hid_code, pressed) ==
  IF is_modifier(hid_code)
  THEN [st EXCEPT
          !.modifiers_ = IF pressed THEN BitOr(st.modifiers_, modifier_bit(hid_code))
                         ELSE BitAndNot(st.modifiers_, modifier_bit(hid_code)),
          !.report_dirty_ = TRUE]
  ELSE [st EXCEPT
          !.pressed_keys_ = IF pressed THEN st.pressed_keys_ \cup {hid_code}
                            ELSE st.pressed_keys_ \ {hid_code},
          !.report_dirty_ = TRUE]

clear_keeps_cache(st) == [st EXCEPT !.modifiers_ = 0, !.pressed_keys_ = {}]
clear(st) == [st EXCEPT !.modifiers_ = 0, !.pressed_keys_ = {}, !.report_dirty_ = TRUE]

apply_key_event_unchecked(st, linux_code, value) ==
  LET hid_code == IF linux_code \in DOMAIN kKeyboardUsage THEN kKeyboardUsage[linux_code] ELSE 0 IN
  IF value = 0 THEN [st |-> set_key_state(st, hid_code, FALSE), ret |-> TRUE]
  ELSE IF value \in {1, 2} THEN [st |-> set_key_state(st, hid_code, TRUE), ret |-> TRUE]
  ELSE [st |-> st, ret |-> FALSE]

apply_key_event_repeat_ignored(st, linux_code, value) ==
  LET hid_code == get_keyboard_usage(linux_code) IN
  IF hid_code = <<>> THEN [st |-> st, ret |-> FALSE]
  ELSE IF value = 0 THEN [st |-> set_key_state(st, hid_code[1], FALSE), ret |-> TRUE]
  ELSE IF value = 1 THEN [st |-> set_key_state(st, hid_code[1], TRUE), ret |-> TRUE]
  ELSE [st |-> st, ret |-> FALSE]

apply_key_event_other_releases(st, linux_code, value) ==
  LET hid_code == get_keyboard_usage(linux_code) IN
  IF hid_code = <<>> THEN [st |-> st, ret |-> FALSE]
  ELSE IF value \in {1, 2} THEN [st |-> set_key_state(st, hid_code[1], TRUE), ret |-> TRUE]
  ELSE [st |-> set_key_state(st, hid_code[1], FALSE), ret |-> TRUE]

apply_key_event(st, linux_code, value) ==
  LET hid_code == get_keyboard_usage(linux_code) IN
  IF hid_code = <<>> THEN [st |-> st, ret |-> FALSE]
  ELSE IF value = 0 THEN [st |-> set_key_state(st, hid_code[1], FALSE), ret |-> TRUE]
  ELSE IF value \in {1, 2} THEN [st |-> set_key_state(st, hid_code[1], TRUE), ret |-> TRUE]
  ELSE [st |-> st, ret |-> FALSE]

make_consumer_report_big_endian(linux_code, value) ==
  LET usage == IF value = 1 /\ get_consumer_usage(linux_code) # <<>>
               THEN get_consumer_usage(linux_code)[1] ELSE 0
  IN <<(usage \div 256) % 256, usage % 256>>

make_consumer_report(linux_code, value) ==
  LET usage == IF value = 1 /\ get_consumer_usage(linux_code) # <<>>
               THEN get_consumer_usage(linux_code)[1] ELSE 0
  IN <<usage % 256, (usage \div 256) % 256>>

(* ------------------------------------------------------------------ *)
(* class ExitHotkeyDetector                                            *)
(* ------------------------------------------------------------------ *)
ExitHotkeyDetectorInit ==
  [ctrl_pressed_ |-> FALSE, alt_pressed_ |-> FALSE, h_pressed_ |-> FALSE]

is_press_or_repeat(value) == value >= 1
is_press(value) == value = 1

is_release_of_repeat(value) == value = 2
is_release(value) == value = 0

all_required_any(hk) == (hk.ctrl_pressed_ \/ hk.alt_pressed_) /\ hk.h_pressed_
all_required(hk) == hk.ctrl_pressed_ /\ hk.alt_pressed_ /\ hk.h_pressed_

process_key_event_default_resets(hk, linux_code, value) ==
  IF linux_code \in {KEY_LEFTCTRL, KEY_RIGHTCTRL}
  THEN [hk |-> IF is_press(value) THEN [hk EXCEPT !.ctrl_pressed_ = TRUE]
               ELSE IF is_release(value) THEN [hk EXCEPT !.ctrl_pressed_ = FALSE] ELSE hk,
        ret |-> FALSE]
  ELSE IF linux_code \in {KEY_LEFTALT, KEY_RIGHTALT}
  THEN [hk |-> IF is_press(value) THEN [hk EXCEPT !.alt_pressed_ = TRUE]
               ELSE IF is_release(value) THEN [hk EXCEPT !.alt_pressed_ = FALSE] ELSE hk,
        ret |-> FALSE]
  ELSE IF linux_code = KEY_H
  THEN IF is_press(value)
       THEN [hk |-> [hk EXCEPT !.h_pressed_ = TRUE],
             ret |-> all_required([hk EXCEPT !.h_pressed_ = TRUE])]
       ELSE IF is_release(value) THEN [hk |-> [hk EXCEPT !.h_pressed_ = FALSE], ret |-> FALSE]
       ELSE [hk |-> hk, ret |-> FALSE]
  ELSE [hk |-> [hk EXCEPT !.h_pressed_ = FALSE], ret |-> FALSE]

process_key_event(hk, linux_code, value) ==
  IF linux_code \in {KEY_LEFTCTRL, KEY_RIGHTCTRL}
  THEN [hk |-> IF is_press(value) THEN [hk EXCEPT !.ctrl_pressed_ = TRUE]
               ELSE IF is_release(value) THEN [hk EXCEPT !.ctrl_pressed_ = FALSE] ELSE hk,
        ret |-> FALSE]
  ELSE IF linux_code \in {KEY_LEFTALT, KEY_RIGHTALT}
  THEN [hk |-> IF is_press(value) THEN [hk EXCEPT !.alt_pressed_ = TRUE]
               ELSE IF is_release(value) THEN [hk EXCEPT !.alt_pressed_ = FALSE] ELSE hk,
        ret |-> FALSE]
  ELSE IF linux_code = KEY_H
  THEN IF is_press(value)
       THEN [hk |-> [hk EXCEPT !.h_pressed_ = TRUE],
             ret |-> all_required([hk EXCEPT !.h_pressed_ = TRUE])]
       ELSE IF is_release(value) THEN [hk |-> [hk EXCEPT !.h_pressed_ = FALSE], ret |-> FALSE]
       ELSE [hk |-> hk, ret |-> FALSE]
  ELSE [hk |-> hk, ret |-> FALSE]

(* ------------------------------------------------------------------ *)
(* Resources and the objects that own them                             *)
(* ------------------------------------------------------------------ *)
INVALID_FD == -1
NULL == 0

(* The descriptor of the netlink socket of the udev monitor. *)
MonitorSocket == 3

(* What has been acquired from the kernel, libevdev and libudev, and the *)
(* releases (close, libevdev_free, unref) in the order they were made.   *)
(* A resource is named by its kind and its descriptor or address.        *)
NoResources == [acquired |-> {}, released |-> <<>>]
Acquire(os, r) == [os EXCEPT !.acquired = @ \cup {r}]
Release(os, r) == [os EXCEPT !.released = Append(@, r)]

(* DeviceMonitor: the default member initialisers. *)
DeviceMonitorMembers == [udev_ |-> NULL, monitor_ |-> NULL, monitor_fd_ |-> INVALID_FD]

DeviceMonitor_cleanup_keeps_fd(w) ==
  LET a == IF w.obj.monitor_ # NULL
           THEN [obj |-> [w.obj EXCEPT !.monitor_ = NULL],
                 os |-> Release(w.os, <<"udev_monitor", w.obj.monitor_>>)]
           ELSE w
  IN IF a.obj.udev_ # NULL
     THEN [obj |-> [a.obj EXCEPT !.udev_ = NULL], os |-> Release(a.os, <<"udev", a.obj.udev_>>)]
     ELSE a

DeviceMonitor_cleanup(w) ==
  LET a == IF w.obj.monitor_ # NULL
           THEN [obj |-> [w.obj EXCEPT !.monitor_ = NULL],
                 os |-> Release(w.os, <<"udev_monitor", w.obj.monitor_>>)]
           ELSE w
      b == IF a.obj.udev_ # NULL
           THEN [obj |-> [a.obj EXCEPT !.udev_ = NULL],
                 os |-> Release(a.os, <<"udev", a.obj.udev_>>)]
           ELSE a
  IN [b EXCEPT !.obj.monitor_fd_ = INVALID_FD]

(* DeviceMonitor::DeviceMonitor.  fail is the stage that fails: 1 udev_new, *)
(* 2 udev_monitor_new_from_netlink, 3 the subsystem filter, 4 enabling     *)
(* receipt, 5 udev_monitor_get_fd (a negative errno); 0 when none fails.   *)
DeviceMonitor(fail, os) ==
  LET w0 == [obj |-> DeviceMonitorMembers, os |-> os]
      w1 == [obj |-> [w0.obj EXCEPT !.udev_ = 1], os |-> Acquire(os, <<"udev", 1>>)]
      w2 == [obj |-> [w1.obj EXCEPT !.monitor_ = 1],
             os |-> Acquire(w1.os, <<"udev_monitor", 1>>)]
  IN IF fail = 1 THEN w0
     ELSE IF fail = 2 THEN DeviceMonitor_cleanup(w1)
     ELSE IF fail \in {3, 4} THEN DeviceMonitor_cleanup(w2)
     ELSE IF fail = 5 THEN DeviceMonitor_cleanup([w2 EXCEPT !.obj.monitor_fd_ = -22])
     ELSE [w2 EXCEPT !.obj.monitor_fd_ = MonitorSocket]

DeviceMonitor_is_valid(m) == m.udev_ # NULL /\ m.monitor_ # NULL

monitor_fd(m) == m.monitor_fd_

(* File descriptors are named by what they are open on: a device fd by *)
(* the device path, the monitor fd by "monitor".                       *)
FdName(fd) == IF fd = MonitorSocket THEN "monitor" ELSE "closed"

(* KeyboardDevice: the default member initialisers.  moved_from is not a *)
(* member: it marks an object that was the source of a move and has not  *)
(* been assigned since.                                                  *)
KeyboardDeviceMembers ==
  [fd_ |-> INVALID_FD, evdev_ |-> NULL, path_ |-> "", name_ |-> "", moved_from |-> FALSE]

KeyboardDevice_is_valid_unchecked(h) == TRUE

KeyboardDevice_is_valid(h) == h.fd_ >= 0 /\ h.evdev_ # NULL

KeyboardDevice_cleanup(w) ==
  LET a == IF w.obj.evdev_ # NULL
           THEN [obj |-> [w.obj EXCEPT !.evdev_ = NULL],
                 os |-> Release(w.os, <<"evdev", w.obj.evdev_>>)]
           ELSE w
  IN IF a.obj.fd_ >= 0
     THEN [obj |-> [a.obj EXCEPT !.fd_ = INVALID_FD], os |-> Release(a.os, <<"fd", a.obj.fd_>>)]
     ELSE a

(* What libevdev reports for a device: the event types it has and, for *)
(* EV_KEY, the key codes.                                               *)
libevdev_has_event_type(caps, type) == type \in caps.types
libevdev_has_event_code(caps, type, code) == type \in caps.types /\ code \in caps.keys

is_keyboard_device_any_key(evdev, caps) ==
  evdev # NULL /\ libevdev_has_event_type(caps, "EV_KEY")

is_keyboard_device(evdev, caps) ==
  /\ evdev # NULL
  /\ libevdev_has_event_type(caps, "EV_KEY")
  /\ libevdev_has_event_code(caps, "EV_KEY", KEY_A)

(* The descriptor open() returns next, also used as the address of the *)
(* libevdev context created on it.                                     *)
NextFd(os) == MonitorSocket + 1 + Cardinality({r \in os.acquired : r[1] = "fd"})

(* KeyboardDevice::KeyboardDevice(device_path).  node says what the system *)
(* does with the path: whether open() succeeds, whether libevdev can read   *)
(* the capabilities, and the capabilities.                                  *)
KeyboardDevice(device_path, node, os) ==
  LET w0 == [obj |-> [KeyboardDeviceMembers EXCEPT !.path_ = device_path], os |-> os]
      fd == NextFd(os)
      w1 == [obj |-> [w0.obj EXCEPT !.fd_ = fd], os |-> Acquire(os, <<"fd", fd>>)]
      w2 == [obj |-> [w1.obj EXCEPT !.evdev_ = fd], os |-> Acquire(w1.os, <<"evdev", fd>>)]
  IN IF device_path = "" THEN w0
     ELSE IF ~node.open_ok THEN w0
     ELSE IF ~node.parse_ok
     THEN [obj |-> [w1.obj EXCEPT !.fd_ = INVALID_FD], os |-> Release(w1.os, <<"fd", fd>>)]
     ELSE IF ~is_keyboard_device(w2.obj.evdev_, node.caps) THEN KeyboardDevice_cleanup(w2)
     ELSE [w2 EXCEPT !.obj.name_ = "keyboard"]

(* ~KeyboardDevice *)
KeyboardDevice_destroy(h, os) == KeyboardDevice_cleanup([obj |-> h, os |-> os]).os

(* The move constructor that leaves the source as it was. *)
KeyboardDevice_move_keeps_source(other) ==
  [obj |-> [other EXCEPT !.moved_from = FALSE], other |-> [other EXCEPT !.moved_from = TRUE]]

(* KeyboardDevice(KeyboardDevice&& other): the new object and what is left *)
(* of other (its strings are moved from: empty).                           *)
KeyboardDevice_move(other) ==
  [obj |-> [other EXCEPT !.moved_from = FALSE],
   other |-> [other EXCEPT !.fd_ = INVALID_FD, !.evdev_ = NULL, !.path_ = "", !.name_ = "",
                           !.moved_from = TRUE]]

(* operator=(KeyboardDevice&& other); same says that other is *this. *)
KeyboardDevice_move_assign(this, other, same, os) ==
  IF same THEN [obj |-> this, other |-> other, os |-> os]
  ELSE LET c == KeyboardDevice_cleanup([obj |-> this, os |-> os]) IN
       [obj |-> [other EXCEPT !.moved_from = FALSE],
        other |-> [other EXCEPT !.fd_ = INVALID_FD, !.evdev_ = NULL, !.path_ = "",
                                !.name_ = "", !.moved_from = TRUE],
        os |-> c.os]

(* Destructors of the elements of a storage block, first to last. *)
RECURSIVE DestroyAll(_, _)
DestroyAll(hs, os) ==
  IF hs = <<>> THEN os ELSE DestroyAll(Tail(hs), KeyboardDevice_destroy(Head(hs), os))

(* std::vector::emplace_back(std::move(h)).  With realloc the elements *)
(* are move-constructed into a new block and the old block destroyed.  *)
emplace_back(vec, h, realloc, os) ==
  LET moved == [i \in 1..Len(vec) |-> KeyboardDevice_move(vec[i])]
      m == KeyboardDevice_move(h)
  IN IF realloc
     THEN [vec |-> Append([i \in 1..Len(vec) |-> moved[i].obj], m.obj),
           other |-> m.other,
           os |-> DestroyAll([i \in 1..Len(vec) |-> moved[i].other], os)]
     ELSE [vec |-> Append(vec, m.obj), other |-> m.other, os |-> os]

(* std::vector::erase(begin() + i - 1): the elements behind i are move-   *)
(* assigned one place forward, then the last element is destroyed.        *)
RECURSIVE erase(_, _, _)
erase(vec, i, os) ==
  IF i >= Len(vec)
  THEN [vec |-> SubSeq(vec, 1, Len(vec) - 1), os |-> KeyboardDevice_destroy(vec[Len(vec)], os)]
  ELSE LET a == KeyboardDevice_move_assign(vec[i], vec[i + 1], FALSE, os) IN
       erase([vec EXCEPT ![i] = a.obj, ![i + 1] = a.other], i + 1, a.os)

(* KeyboardManager::get_poll_fds on a collection of handles: the fd of *)
(* every valid handle, in order, then the monitor fd of a valid monitor. *)
get_poll_fds_of_handles(kbs, mon) ==
  LET valid == SelectSeq(kbs, KeyboardDevice_is_valid) IN
  [i \in 1..Len(valid) |-> valid[i].fd_]
    \o (IF DeviceMonitor_is_valid(mon) THEN <<monitor_fd(mon)>> ELSE <<>>)

(* KeyboardDevice objects with automatic storage: none is alive. *)
Slots == {"a", "b"}
NoObjects == [s \in Slots |-> <<>>]

KdNoCall ==
  [op |-> "none", path |-> "", node |-> <<>>, obj |-> KeyboardDeviceMembers,
   took |-> {}, released |-> 0, moved |-> FALSE, same |-> FALSE]

(* ------------------------------------------------------------------ *)
(* State                                                               *)
(* ------------------------------------------------------------------ *)
VARIABLES
  kb_state,          \* hid::KeyboardState (kb_state of main, or the object under test)
  hotkey_detector,   \* ExitHotkeyDetector (static local of the poll lambda)
  ks_call,           \* last KeyboardState operation and its result; the arguments
                     \* of an event call; for a get_report the call made before it
  ks_held,           \* usages whose most recent set_key_state since clear() was a press
  ks_pending,        \* calls made since the report was last read
  ks_rollover,       \* keys the last report left out that are still held, and
                     \* keys that report showed after an earlier one left them out
  hk_call,           \* last process_key_event call: arguments, result, flags before it
  hk_chord,          \* progress through Ctrl-press, Alt-press, H-press, then releases
  hk_early,          \* H went down while a modifier flag was missing, and is still down
  g_running,         \* std::atomic<bool> g_running
  sendReport,        \* TRUE once the std::function sendReport holds a report writer
  app_quit,          \* app.quit() has been called: the Qt event loop has ended
  keyboards_,        \* KeyboardManager::keyboards_, a sequence of open handles
  monitor_,          \* KeyboardManager::monitor_, a DeviceMonitor
  os_res,            \* resources acquired from the system and the releases made
  kd_objs,           \* KeyboardDevice objects outside the collection
  kd_call,           \* last KeyboardDevice operation and what it released
  dm_call,           \* last KeyboardManager operation called and what it returned
  udev_queue,        \* hot-plug notifications queued on the udev monitor
  present,           \* paths of the keyboards currently plugged in
  evbuf,             \* per path: key events buffered on the open handle
  held,              \* per path: key codes down according to the events read so far
  sink_last,         \* last report delivered to the report sink, <<>> if none
  last_tick,         \* how the last poll tick returned, the notifications it took
                     \* off the monitor and what each event it read did
  budget             \* key events and plug operations performed so far, and
                     \* (orphans) the keys that were down on a keyboard it was unplugged with

vars == <<kb_state, hotkey_detector, ks_call, ks_held, ks_pending, ks_rollover,
          hk_call, hk_chord, hk_early,
          g_running, sendReport, app_quit, keyboards_, monitor_, os_res, kd_objs, kd_call,
          dm_call, udev_queue, present, evbuf, held, sink_last, last_tick, budget>>

ksVars == <<kb_state, ks_call, ks_held, ks_pending, ks_rollover>>
hkVars == <<hotkey_detector, hk_call, hk_chord, hk_early>>
hkObservers == <<hk_call, hk_chord, hk_early>>
ksObservers == <<ks_call, ks_held, ks_pending, ks_rollover>>
dmVars == <<monitor_, dm_call>>
kdVars == <<os_res, kd_objs, kd_call>>
loopVars == <<g_running, sendReport, app_quit, keyboards_, dmVars, kdVars, udev_queue, present,
              evbuf, held, sink_last, last_tick, budget>>

MaxPending == 2

(* ------------------------------------------------------------------ *)
(* KeyboardState driven directly through its public interface          *)
(* ------------------------------------------------------------------ *)
KsKeyUsages == {4, 5, 6, 7, 8, 9, 232}
KsModUsages == {224, 231}
KsUsages == KsKeyUsages \cup KsModUsages
KsCodes == {KEY_A, KEY_LEFTCTRL, KEY_MUTE, KEY_UNMAPPED}
KsValues == {0, 1, 2, 3}

(* ks_call.prev of a call that is not a get_report, and of the first call. *)
NoCall == [op |-> "none", ret |-> <<>>]

KsObjectInit ==
  /\ kb_state = KeyboardStateInit
  /\ ks_call = [op |-> "new", args |-> <<>>, ret |-> <<>>, prev |-> NoCall]
  /\ ks_held = {}
  /\ ks_pending = 0
  /\ ks_rollover = [excluded |-> {}, readmitted |-> {}]

HkObjectInit ==
  /\ hotkey_detector = ExitHotkeyDetectorInit
  /\ hk_call = [code |-> 0, value |-> 0, ret |-> FALSE, pre |-> ExitHotkeyDetectorInit,
                chord |-> [stage |-> 0, rel |-> {}], early |-> FALSE, down |-> {},
                kernel |-> TRUE]
  /\ hk_chord = [stage |-> 0, rel |-> {}]
  /\ hk_early = FALSE

Paths == {"/dev/input/event0", "/dev/input/event1"}

(* The program before main has built anything (the unit-level specifications). *)
DmNoCall == [op |-> "new", ret |-> FALSE, fds |-> <<>>, pre |-> <<>>, edits |-> 0, dups |-> 0,
             misses |-> 0, calls |-> 0]

LoopIdleInit ==
  /\ g_running = TRUE
  /\ sendReport = FALSE
  /\ app_quit = FALSE
  /\ keyboards_ = <<>>
  /\ monitor_ = DeviceMonitorMembers
  /\ os_res = NoResources
  /\ kd_objs = NoObjects
  /\ kd_call = KdNoCall
  /\ dm_call = DmNoCall
  /\ udev_queue = <<>>
  /\ present = {}
  /\ evbuf = [p \in Paths |-> <<>>]
  /\ held = [p \in Paths |-> {}]
  /\ sink_last = <<>>
  /\ last_tick = [path |-> "none", log |-> <<>>, notes |-> <<>>]
  /\ budget = [events |-> 0, plugs |-> 0, orphans |-> {}]

KsInit == KsObjectInit /\ HkObjectInit /\ LoopIdleInit

KS_set_key_state(hid_code, pressed) ==
  /\ ks_pending < MaxPending
  /\ ks_pending' = ks_pending + 1
  /\ kb_state' = set_key_state(kb_state, hid_code, pressed)
  /\ ks_call' = [op |-> "set_key_state", args |-> <<>>, ret |-> <<>>, prev |-> NoCall]
  /\ ks_held' = IF pressed THEN ks_held \cup {hid_code} ELSE ks_held \ {hid_code}
  /\ ks_rollover' = [excluded |-> IF pressed THEN ks_rollover.excluded
                                  ELSE ks_rollover.excluded \ {hid_code},
                     readmitted |-> {}]
  /\ UNCHANGED <<hkVars, loopVars>>

KS_get_report ==
  /\ ks_pending' = 0
  /\ kb_state' = get_report(kb_state).st
  /\ ks_call' = [op |-> "get_report", args |-> <<>>, ret |-> get_report(kb_state).ret,
                 prev |-> [op |-> ks_call.op, ret |-> ks_call.ret]]
  /\ ks_rollover' =
       LET shown == {get_report(kb_state).ret[i] : i \in 3..KEYBOARD_REPORT_SIZE} IN
       [excluded |-> kb_state.pressed_keys_ \ shown,
        readmitted |-> ks_rollover.excluded \cap shown]
  /\ UNCHANGED <<hkVars, loopVars, ks_held>>

KS_clear ==
  /\ ks_pending < MaxPending
  /\ ks_pending' = ks_pending + 1
  /\ kb_state' = clear(kb_state)
  /\ ks_call' = [op |-> "clear", args |-> <<>>, ret |-> <<>>, prev |-> NoCall]
  /\ ks_held' = {}
  /\ ks_rollover' = [excluded |-> {}, readmitted |-> {}]
  /\ UNCHANGED <<hkVars, loopVars>>

KS_apply_key_event(linux_code, value) ==
  /\ ks_pending < MaxPending
  /\ ks_pending' = ks_pending + 1
  /\ kb_state' = apply_key_event(kb_state, linux_code, value).st
  /\ ks_call' = [op |-> "apply_key_event", args |-> <<linux_code, value>>,
                 ret |-> <<apply_key_event(kb_state, linux_code, value).ret>>,
                 prev |-> NoCall]
  /\ ks_held' = IF linux_code \in DOMAIN kKeyboardUsage /\ value \in {1, 2}
                THEN ks_held \cup {kKeyboardUsage[linux_code]}
                ELSE IF linux_code \in DOMAIN kKeyboardUsage /\ value = 0
                THEN ks_held \ {kKeyboardUsage[linux_code]}
                ELSE ks_held
  /\ ks_rollover' = [excluded |-> IF linux_code \in DOMAIN kKeyboardUsage /\ value = 0
                                  THEN ks_rollover.excluded \ {kKeyboardUsage[linux_code]}
                                  ELSE ks_rollover.excluded,
                     readmitted |-> {}]
  /\ UNCHANGED <<hkVars, loopVars>>

KsNext ==
  \/ \E u \in KsUsages, p \in BOOLEAN : KS_set_key_state(u, p)
  \/ KS_get_report
  \/ KS_clear
  \/ \E c \in KsCodes, v \in KsValues : KS_apply_key_event(c, v)

SpecKS == KsInit /\ [][KsNext]_vars

(* ------------------------------------------------------------------ *)
(* The consumer report encoder called directly                         *)
(* ------------------------------------------------------------------ *)
CrCodes == DOMAIN kConsumerUsage \cup DOMAIN kKeyboardUsage \cup {KEY_UNMAPPED}
CrValues == {0, 1, 2, 3}

CR_make_consumer_report(linux_code, value) ==
  /\ ks_call' = [op |-> "make_consumer_report", args |-> <<linux_code, value>>,
                 ret |-> make_consumer_report(linux_code, value), prev |-> NoCall]
  /\ UNCHANGED <<kb_state, ks_held, ks_pending, ks_rollover, hkVars, loopVars>>

CrNext == \E c \in CrCodes, v \in CrValues : CR_make_consumer_report(c, v)

SpecCR == KsInit /\ [][CrNext]_vars

(* ------------------------------------------------------------------ *)
(* The keyboard lookup called directly, two lookups kept side by side  *)
(* ------------------------------------------------------------------ *)
KuCodes == DOMAIN kKeyboardUsage \cup DOMAIN kConsumerUsage \cup {KEY_UNMAPPED}

KU_get_keyboard_usage(linux_code) ==
  /\ ks_call' = [op |-> "get_keyboard_usage", args |-> <<linux_code>>,
                 ret |-> get_keyboard_usage(linux_code),
                 prev |-> [op |-> ks_call.op, args |-> ks_call.args, ret |-> ks_call.ret]]
  /\ UNCHANGED <<kb_state, ks_held, ks_pending, ks_rollover, hkVars, loopVars>>

KuNext == \E c \in KuCodes : KU_get_keyboard_usage(c)

SpecKU == KsInit /\ [][KuNext]_vars

(* ------------------------------------------------------------------ *)
(* ExitHotkeyDetector driven directly through process_key_event        *)
(* ------------------------------------------------------------------ *)
HkCodes == {KEY_LEFTCTRL, KEY_RIGHTCTRL, KEY_LEFTALT, KEY_RIGHTALT, KEY_H, KEY_A}
HkValues == {0, 1, 2, 3}

HkKind(linux_code) ==
  IF linux_code \in {KEY_LEFTCTRL, KEY_RIGHTCTRL} THEN "ctrl"
  ELSE IF linux_code \in {KEY_LEFTALT, KEY_RIGHTALT} THEN "alt"
  ELSE IF linux_code = KEY_H THEN "h"
  ELSE "other"

(* Observer of the event sequence Ctrl press, Alt press, H press (stage 3), *)
(* followed only by releases of the three keys (collected in rel).          *)
ChordAfter(chord, linux_code, value) ==
  LET kind == HkKind(linux_code) IN
  IF value = 1 /\ kind = "ctrl" THEN [stage |-> 1, rel |-> {}]
  ELSE IF value = 1 /\ kind = "alt" /\ chord.stage = 1 THEN [stage |-> 2, rel |-> {}]
  ELSE IF value = 1 /\ kind = "h" /\ chord.stage = 2 THEN [stage |-> 3, rel |-> {}]
  ELSE IF value = 0 /\ kind # "other" /\ chord.stage = 3
       THEN [stage |-> 3, rel |-> chord.rel \cup {kind}]
  ELSE [stage |-> 0, rel |-> {}]

(* Observer: the letter was pressed while a modifier flag was missing and *)
(* has not been released since.                                           *)
EarlyAfter(early, hk, linux_code, value) ==
  IF linux_code = KEY_H /\ value = 1 THEN ~(hk.ctrl_pressed_ /\ hk.alt_pressed_)
  ELSE IF linux_code = KEY_H /\ value = 0 THEN FALSE
  ELSE early

(* Observer: the keys down by the presses (1) and releases (0) seen so far. *)
HkDownAfter(down, linux_code, value) ==
  IF value = 1 THEN down \cup {linux_code}
  ELSE IF value = 0 THEN down \ {linux_code}
  ELSE down

(* Observer: an event a keyboard can produce with the keys in down held: *)
(* a press of a key that is up, a repeat or a release of a key that is down. *)
HkFromKeyboard(down, linux_code, value) ==
  IF value = 1 THEN linux_code \notin down
  ELSE value \in {0, 2} /\ linux_code \in down

HK_process_key_event(linux_code, value) ==
  /\ hotkey_detector' = process_key_event(hotkey_detector, linux_code, value).hk
  /\ hk_call' = [code |-> linux_code, value |-> value,
                 ret |-> process_key_event(hotkey_detector, linux_code, value).ret,
                 pre |-> hotkey_detector, chord |-> hk_chord, early |-> hk_early,
                 down |-> HkDownAfter(hk_call.down, hk_call.code, hk_call.value),
                 kernel |-> /\ hk_call.kernel
                            /\ HkFromKeyboard(HkDownAfter(hk_call.down, hk_call.code, hk_call.value),
                                              linux_code, value)]
  /\ hk_chord' = ChordAfter(hk_chord, linux_code, value)
  /\ hk_early' = EarlyAfter(hk_early, hotkey_detector, linux_code, value)
  /\ UNCHANGED <<ksVars, loopVars>>

HkInit == KsObjectInit /\ HkObjectInit /\ LoopIdleInit

HkNext == \E c \in HkCodes, v \in HkValues : HK_process_key_event(c, v)

SpecHK == HkInit /\ [][HkNext]_vars

(* ------------------------------------------------------------------ *)
(* KeyboardManager as the poll loop uses it                            *)
(* ------------------------------------------------------------------ *)
HasPath(kbs, device_path) == \E i \in 1..Len(kbs) : kbs[i].path = device_path

FindPath(kbs, device_path) ==
  CHOOSE i \in 1..Len(kbs) : kbs[i].path = device_path /\ \A j \in 1..(i - 1) : kbs[j].path # device_path

EraseAt(kbs, i) == [j \in 1..(Len(kbs) - 1) |-> IF j < i THEN kbs[j] ELSE kbs[j + 1]]

(* dm is the manager with the device files it reads: kbs (keyboards_),  *)
(* buf and hld (the event buffer and key state behind each open handle). *)
(* KeyboardDevice(path) is valid iff a keyboard is plugged in at path.   *)
add_device_no_check(dm, device_path, plugged) ==
  IF device_path \in plugged
  THEN [dm EXCEPT !.kbs = Append(dm.kbs, [path |-> device_path]),
                  !.buf[device_path] = <<>>,
                  !.hld[device_path] = {}]
  ELSE dm

add_device(dm, device_path, plugged) ==
  IF HasPath(dm.kbs, device_path) THEN dm
  ELSE IF device_path \in plugged
  THEN [dm EXCEPT !.kbs = Append(dm.kbs, [path |-> device_path]),
                  !.buf[device_path] = <<>>,
                  !.hld[device_path] = {}]
  ELSE dm

remove_device_unchecked(dm, device_path) ==
  IF HasPath(dm.kbs, device_path)
  THEN [dm EXCEPT !.kbs = EraseAt(dm.kbs, FindPath(dm.kbs, device_path)),
                  !.buf[device_path] = <<>>,
                  !.hld[device_path] = {}]
  ELSE IF dm.kbs = <<>> THEN dm
  ELSE [dm EXCEPT !.kbs = EraseAt(dm.kbs, Len(dm.kbs)),
                  !.buf[dm.kbs[Len(dm.kbs)].path] = <<>>,
                  !.hld[dm.kbs[Len(dm.kbs)].path] = {}]

remove_device(dm, device_path) ==
  IF HasPath(dm.kbs, device_path)
  THEN [dm EXCEPT !.kbs = EraseAt(dm.kbs, FindPath(dm.kbs, device_path)),
                  !.buf[device_path] = <<>>,
                  !.hld[device_path] = {}]
  ELSE dm

(* The on_add / on_remove lambdas of update_devices.  Besides            *)
(* devices_changed (changed) the record counts the callbacks that         *)
(* appended or erased a handle (edits) and the add callbacks for a path   *)
(* that already had one (dups) and the remove callbacks for a path that   *)
(* had none (misses).                                                     *)
on_add(dm, device_path, plugged) ==
  LET x == add_device(dm, device_path, plugged) IN
  [x EXCEPT !.changed = TRUE,
            !.edits = @ + (IF x.kbs # dm.kbs THEN 1 ELSE 0),
            !.dups = @ + (IF HasPath(dm.kbs, device_path) THEN 1 ELSE 0)]

on_remove(dm, device_path) ==
  LET x == remove_device(dm, device_path) IN
  [x EXCEPT !.changed = TRUE,
            !.edits = @ + (IF x.kbs # dm.kbs THEN 1 ELSE 0),
            !.misses = @ + (IF HasPath(dm.kbs, device_path) THEN 0 ELSE 1)]

(* The device nodes udev reports for the input subsystem, as C strings; *)
(* a device without a node has a null devnode.                          *)
NullDevnode == "(null)"

EVENT_DEVICE_PREFIX == <<"e", "v", "e", "n", "t">>

kDevnodeText ==
  [n \in {"/dev/input/event0", "/dev/input/event1", "/dev/input/event2", "/dev/input/mouse0"} |->
     <<"/", "d", "e", "v", "/", "i", "n", "p", "u", "t", "/">> \o
     (CASE n = "/dev/input/event0" -> <<"e", "v", "e", "n", "t", "0">>
        [] n = "/dev/input/event1" -> <<"e", "v", "e", "n", "t", "1">>
        [] n = "/dev/input/event2" -> <<"e", "v", "e", "n", "t", "2">>
        [] n = "/dev/input/mouse0" -> <<"m", "o", "u", "s", "e", "0">>)]

(* std::strstr(haystack, needle) != nullptr *)
strstr(haystack, needle) ==
  \E i \in 1..(Len(haystack) - Len(needle) + 1) :
     SubSeq(haystack, i, i + Len(needle) - 1) = needle

(* The test of process_events on one received device: which callback, *)
(* if any, it invokes.                                                 *)
callback_for(n) ==
  IF n.path # NullDevnode /\ strstr(kDevnodeText[n.path], EVENT_DEVICE_PREFIX)
  THEN IF n.action = "add" THEN <<[cb |-> "on_add", path |-> n.path]>>
       ELSE IF n.action = "remove" THEN <<[cb |-> "on_remove", path |-> n.path]>>
       ELSE <<>>
  ELSE <<>>

(* The while loop of process_events: the callbacks invoked, in order. *)
RECURSIVE receive_all(_)
receive_all(queue) ==
  IF queue = <<>> THEN <<>>
  ELSE callback_for(Head(queue)) \o receive_all(Tail(queue))

(* An if in place of the while: one notification per call. *)
process_events_first_only(mon, queue) ==
  IF mon.monitor_ = NULL THEN [ret |-> FALSE, calls |-> <<>>, queue |-> queue]
  ELSE IF queue = <<>> THEN [ret |-> FALSE, calls |-> <<>>, queue |-> queue]
  ELSE [ret |-> TRUE, calls |-> callback_for(Head(queue)), queue |-> Tail(queue)]

(* DeviceMonitor::process_events: what it returns, the callbacks it *)
(* invokes and what it leaves queued on the monitor socket.         *)
process_events(mon, queue) ==
  IF mon.monitor_ = NULL THEN [ret |-> FALSE, calls |-> <<>>, queue |-> queue]
  ELSE [ret |-> queue # <<>>, calls |-> receive_all(queue), queue |-> <<>>]

(* The callbacks of update_devices run as process_events invokes them. *)
RECURSIVE run_callbacks(_, _, _)
run_callbacks(dm, calls, plugged) ==
  IF calls = <<>> THEN dm
  ELSE LET c == Head(calls)
           after == IF c.cb = "on_add" THEN on_add(dm, c.path, plugged)
                    ELSE on_remove(dm, c.path)
       IN run_callbacks(after, Tail(calls), plugged)

(* The notifications are taken off the socket and none is applied. *)
update_devices_dropped(kbs, mon, queue, plugged, buf, hld) ==
  [kbs |-> kbs, buf |-> buf, hld |-> hld, changed |-> FALSE,
   edits |-> 0, dups |-> 0, misses |-> 0, calls |-> <<>>,
   queue |-> IF DeviceMonitor_is_valid(mon) THEN <<>> ELSE queue]

update_devices(kbs, mon, queue, plugged, buf, hld) ==
  LET dm == [kbs |-> kbs, buf |-> buf, hld |-> hld, changed |-> FALSE,
             edits |-> 0, dups |-> 0, misses |-> 0, calls |-> <<>>, queue |-> queue]
      pe == process_events(mon, queue)
  IN IF ~DeviceMonitor_is_valid(mon) THEN dm
     ELSE [run_callbacks(dm, pe.calls, plugged) EXCEPT !.calls = pe.calls, !.queue = pe.queue]

(* File descriptors are named by what they are open on: a device fd by *)
(* the device path, the monitor fd by "monitor".                       *)
get_poll_fds_monitor_first(kbs, mon) ==
  (IF DeviceMonitor_is_valid(mon) THEN <<FdName(monitor_fd(mon))>> ELSE <<>>)
    \o [i \in 1..Len(kbs) |-> kbs[i].path]

get_poll_fds(kbs, mon) ==
  [i \in 1..Len(kbs) |-> kbs[i].path]
    \o (IF DeviceMonitor_is_valid(mon) THEN <<FdName(monitor_fd(mon))>> ELSE <<>>)

(* ------------------------------------------------------------------ *)
(* The pollTimer timeout lambda of main                                *)
(* ------------------------------------------------------------------ *)

(* The switch on ev.value: what the event does to kb_state and which *)
(* reports it passes to sendReport.                                   *)
HandleKeyValueStale(kb, code, value) ==
  IF value \in {1, 2}
  THEN LET a == apply_key_event(kb, code, value) IN
       IF a.ret
       THEN [kb |-> get_report(a.st).st, sent |-> <<get_report(kb).ret>>]
       ELSE [kb |-> a.st, sent |-> <<>>]
  ELSE IF value = 0
  THEN [kb |-> apply_key_event(kb, code, value).st, sent |-> <<ZeroReport>>]
  ELSE [kb |-> kb, sent |-> <<>>]

HandleKeyValue(kb, code, value) ==
  IF value \in {1, 2}
  THEN LET a == apply_key_event(kb, code, value) IN
       IF a.ret
       THEN [kb |-> get_report(a.st).st, sent |-> <<get_report(a.st).ret>>]
       ELSE [kb |-> a.st, sent |-> <<>>]
  ELSE IF value = 0
  THEN [kb |-> apply_key_event(kb, code, value).st, sent |-> <<ZeroReport>>]
  ELSE [kb |-> kb, sent |-> <<>>]

HeldAfter(codes, ev) ==
  IF ev.value \in {1, 2} THEN codes \cup {ev.code}
  ELSE IF ev.value = 0 THEN codes \ {ev.code}
  ELSE codes

(* Body of the while loop for one EV_KEY event read from device d. *)
ProcessEvent_exit_keeps_running(acc, d, ev) ==
  LET h == process_key_event(acc.hk, ev.code, ev.value) IN
  IF h.ret
  THEN [acc EXCEPT
          !.hk = h.hk,
          !.hld[d] = HeldAfter(acc.hld[d], ev),
          !.sink = ZeroReport,
          !.log = Append(acc.log, [dev |-> d, code |-> ev.code, value |-> ev.value,
                                   trig |-> TRUE, sent |-> <<ZeroReport>>,
                                   down |-> HeldAfter(acc.hld[d], ev), kb |-> acc.kb]),
          !.quit = TRUE]
  ELSE LET r == HandleKeyValue(acc.kb, ev.code, ev.value) IN
       [acc EXCEPT
          !.hk = h.hk,
          !.kb = r.kb,
          !.hld[d] = HeldAfter(acc.hld[d], ev),
          !.sink = IF r.sent = <<>> THEN acc.sink ELSE r.sent[Len(r.sent)],
          !.log = Append(acc.log, [dev |-> d, code |-> ev.code, value |-> ev.value,
                                   trig |-> FALSE, sent |-> r.sent,
                                   down |-> HeldAfter(acc.hld[d], ev), kb |-> r.kb])]

ProcessEvent(acc, d, ev) ==
  LET h == process_key_event(acc.hk, ev.code, ev.value) IN
  IF h.ret
  THEN [acc EXCEPT
          !.hk = h.hk,
          !.hld[d] = HeldAfter(acc.hld[d], ev),
          !.sink = ZeroReport,
          !.log = Append(acc.log, [dev |-> d, code |-> ev.code, value |-> ev.value,
                                   trig |-> TRUE, sent |-> <<ZeroReport>>,
                                   down |-> HeldAfter(acc.hld[d], ev), kb |-> acc.kb]),
          !.running = FALSE,
          !.quit = TRUE]
  ELSE LET r == HandleKeyValue(acc.kb, ev.code, ev.value) IN
       [acc EXCEPT
          !.hk = h.hk,
          !.kb = r.kb,
          !.hld[d] = HeldAfter(acc.hld[d], ev),
          !.sink = IF r.sent = <<>> THEN acc.sink ELSE r.sent[Len(r.sent)],
          !.log = Append(acc.log, [dev |-> d, code |-> ev.code, value |-> ev.value,
                                   trig |-> FALSE, sent |-> r.sent,
                                   down |-> HeldAfter(acc.hld[d], ev), kb |-> r.kb])]

(* while (libevdev_next_event(...) == 0): every buffered event of d, in order. *)
RECURSIVE DrainEvents(_, _)
DrainEvents(acc, d) ==
  IF acc.quit \/ acc.buf[d] = <<>> THEN acc
  ELSE DrainEvents(ProcessEvent([acc EXCEPT !.buf[d] = Tail(acc.buf[d])], d, Head(acc.buf[d])), d)

(* The keyboards visited from the last to the first. *)
RECURSIVE DrainKeyboardsDown(_, _, _, _)
DrainKeyboardsDown(acc, kbs, ready, i) ==
  IF acc.quit \/ i < 1 THEN acc
  ELSE IF i > Len(ready) \/ ~ready[i] THEN DrainKeyboardsDown(acc, kbs, ready, i - 1)
  ELSE DrainKeyboardsDown(DrainEvents(acc, kbs[i].path), kbs, ready, i - 1)

DrainKeyboardsReverse(acc, kbs, ready, i) == DrainKeyboardsDown(acc, kbs, ready, Len(kbs))

(* for (i = 0; i < keyboards.size(); ++i), skipping fds without POLLIN. *)
RECURSIVE DrainKeyboards(_, _, _, _)
DrainKeyboards(acc, kbs, ready, i) ==
  IF acc.quit \/ i > Len(kbs) THEN acc
  ELSE IF i > Len(ready) \/ ~ready[i] THEN DrainKeyboards(acc, kbs, ready, i + 1)
  ELSE DrainKeyboards(DrainEvents(acc, kbs[i].path), kbs, ready, i + 1)

(* revents of poll(): a device fd has POLLIN iff events are buffered on it; *)
(* the monitor fd (last) iff notifications are queued.                      *)
PollIn(fds, buf, queue) ==
  [i \in 1..Len(fds) |-> IF fds[i] = "monitor" THEN queue # <<>> ELSE buf[fds[i]] # <<>>]

(* The test at the head of the pollTimer lambda: true when it returns at once. *)
timeout_guard_running_only(running, sink) == ~running

timeout_guard(running, sink) == ~running \/ ~sink

(* The timeout lambda. Nothing stops pollTimer, so a timeout the event *)
(* loop still delivers after app.quit() runs the lambda as well.       *)
Tick ==
  /\ IF timeout_guard(g_running, sendReport)
     THEN /\ last_tick' = [path |-> "guard", log |-> <<>>, notes |-> <<>>]
          /\ UNCHANGED <<kb_state, hotkey_detector, g_running, app_quit, keyboards_,
                         udev_queue, evbuf, held, sink_last>>
     ELSE LET dm == update_devices(keyboards_, monitor_, udev_queue, present, evbuf, held)
              notes == IF DeviceMonitor_is_valid(monitor_) THEN udev_queue ELSE <<>>
              fds == get_poll_fds(dm.kbs, monitor_)
              ready == PollIn(fds, dm.buf, <<>>)
              acc0 == [kb |-> kb_state, hk |-> hotkey_detector, buf |-> dm.buf,
                       hld |-> dm.hld, sink |-> sink_last, log |-> <<>>,
                       running |-> g_running, quit |-> FALSE]
              acc == DrainKeyboards(acc0, dm.kbs, ready, 1)
          IN /\ keyboards_' = dm.kbs
             /\ udev_queue' = dm.queue
             /\ IF fds = <<>>
                THEN /\ last_tick' = [path |-> "nofds", log |-> <<>>, notes |-> notes]
                     /\ evbuf' = dm.buf
                     /\ held' = dm.hld
                     /\ UNCHANGED <<kb_state, hotkey_detector, g_running, app_quit, sink_last>>
                ELSE IF \A i \in 1..Len(ready) : ~ready[i]
                THEN /\ last_tick' = [path |-> "idle", log |-> <<>>, notes |-> notes]
                     /\ evbuf' = dm.buf
                     /\ held' = dm.hld
                     /\ UNCHANGED <<kb_state, hotkey_detector, g_running, app_quit, sink_last>>
                ELSE /\ last_tick' = [path |-> IF acc.quit THEN "exit" ELSE "drained",
                                      log |-> acc.log, notes |-> notes]
                     /\ kb_state' = acc.kb
                     /\ hotkey_detector' = acc.hk
                     /\ evbuf' = acc.buf
                     /\ held' = acc.hld
                     /\ sink_last' = acc.sink
                     /\ g_running' = acc.running
                     /\ app_quit' = acc.quit
  /\ UNCHANGED <<ksObservers, hkObservers, dmVars, kdVars, sendReport, present, budget>>

(* signal_handler: the value of g_running after the handler has run. *)
signal_handler_rearms(running, signum) == signum = SIGINT

signal_handler(running, signum) == IF signum = SIGINT THEN running ELSE FALSE

(* signal_handler as installed for SIGINT and SIGTERM. *)
SignalHandler(signum) ==
  /\ ~app_quit
  /\ g_running' = signal_handler(g_running, signum)
  /\ last_tick' = [path |-> IF signum = SIGINT THEN "sigint" ELSE "signal",
                   log |-> <<>>, notes |-> <<>>]
  /\ UNCHANGED <<ksVars, hkVars, dmVars, kdVars, sendReport, app_quit, keyboards_, udev_queue, present,
                 evbuf, held, sink_last, budget>>

(* Service stateChanged lambda: a writable characteristic was found. *)
ServiceDiscovered ==
  /\ ~app_quit
  /\ ~sendReport
  /\ sendReport' = TRUE
  /\ UNCHANGED <<ksVars, hkVars, dmVars, kdVars, g_running, app_quit, keyboards_, udev_queue, present,
                 evbuf, held, sink_last, last_tick, budget>>

(* The disconnected lambda. *)
Disconnected ==
  /\ ~app_quit
  /\ g_running' = FALSE
  /\ app_quit' = TRUE
  /\ last_tick' = [path |-> "disconnected", log |-> <<>>, notes |-> <<>>]
  /\ UNCHANGED <<ksVars, hkVars, dmVars, kdVars, sendReport, keyboards_, udev_queue, present,
                 evbuf, held, sink_last, budget>>

(* The errorOccurred lambda: NoError returns, every other error stops. *)
ErrorOccurred(error) ==
  /\ ~app_quit
  /\ g_running' = IF error = "NoError" THEN g_running ELSE FALSE
  /\ app_quit' = IF error = "NoError" THEN app_quit ELSE TRUE
  /\ last_tick' = [path |-> error, log |-> <<>>, notes |-> <<>>]
  /\ UNCHANGED <<ksVars, hkVars, dmVars, kdVars, sendReport, keyboards_, udev_queue, present,
                 evbuf, held, sink_last, budget>>

(* The connection timer lambda; the timer is stopped once connected, and *)
(* sendReport is only set after that.                                    *)
ConnectionTimeout ==
  /\ ~app_quit
  /\ ~sendReport
  /\ g_running' = FALSE
  /\ app_quit' = TRUE
  /\ last_tick' = [path |-> "timeout", log |-> <<>>, notes |-> <<>>]
  /\ UNCHANGED <<ksVars, hkVars, dmVars, kdVars, sendReport, keyboards_, udev_queue, present,
                 evbuf, held, sink_last, budget>>

(* ------------------------------------------------------------------ *)
(* Environment of the poll loop: keys, plugs                           *)
(* ------------------------------------------------------------------ *)
MaxEvents == 3
MaxPlugs == 1
MaxBuffered == 2

LoopCodes == {KEY_LEFTCTRL, KEY_LEFTALT, KEY_H, KEY_A, KEY_MUTE, KEY_UNMAPPED}

RECURSIVE DownAfter(_, _)
DownAfter(codes, events) ==
  IF events = <<>> THEN codes ELSE DownAfter(HeldAfter(codes, Head(events)), Tail(events))

(* Keys physically down on the keyboard at path d. *)
Down(d) == DownAfter(held[d], evbuf[d])

(* The open handle of d still reads from a plugged-in keyboard. *)
Live(d) ==
  /\ HasPath(keyboards_, d)
  /\ d \in present
  /\ \A i \in 1..Len(udev_queue) : udev_queue[i].path # d

(* The kernel queues press(1), auto-repeat(2), release(0) of one key. *)
KeyEventUpTo(d, code, value, max) ==
  /\ ~app_quit
  /\ g_running
  /\ Live(d)
  /\ budget.events < max
  /\ Len(evbuf[d]) < MaxBuffered
  /\ IF value = 1 THEN code \notin Down(d) ELSE code \in Down(d)
  /\ evbuf' = [evbuf EXCEPT ![d] = Append(@, [code |-> code, value |-> value])]
  /\ budget' = [budget EXCEPT !.events = @ + 1]
  /\ UNCHANGED <<ksVars, hkVars, dmVars, kdVars, g_running, sendReport, app_quit, keyboards_, udev_queue,
                 present, held, sink_last, last_tick>>

Plug(d) ==
  /\ ~app_quit
  /\ g_running
  /\ d \notin present
  /\ budget.plugs < MaxPlugs
  /\ present' = present \cup {d}
  /\ udev_queue' = Append(udev_queue, [action |-> "add", path |-> d])
  /\ budget' = [budget EXCEPT !.plugs = @ + 1]
  /\ UNCHANGED <<ksVars, hkVars, dmVars, kdVars, g_running, sendReport, app_quit, keyboards_,
                 evbuf, held, sink_last, last_tick>>

Unplug(d) ==
  /\ ~app_quit
  /\ g_running
  /\ d \in present
  /\ budget.plugs < MaxPlugs
  /\ present' = present \ {d}
  /\ udev_queue' = Append(udev_queue, [action |-> "remove", path |-> d])
  /\ evbuf' = [evbuf EXCEPT ![d] = <<>>]
  /\ held' = [held EXCEPT ![d] = {}]
  /\ budget' = [budget EXCEPT !.plugs = @ + 1, !.orphans = @ \cup (held[d] \cap Down(d))]
  /\ UNCHANGED <<ksVars, hkVars, dmVars, kdVars, g_running, sendReport, app_quit, keyboards_,
                 sink_last, last_tick>>

KeyEvent(d, code, value) == KeyEventUpTo(d, code, value, MaxEvents)

(* main up to pollTimer.start(): main returns when the manager is not *)
(* valid, so the manager is valid and has enumerated the keyboards    *)
(* that are plugged in (kbs, in enumeration order).                   *)
MainInit(kbs) ==
  /\ KsObjectInit
  /\ HkObjectInit
  /\ g_running = TRUE
  /\ sendReport = FALSE
  /\ app_quit = FALSE
  /\ present = {kbs[i].path : i \in 1..Len(kbs)}
  /\ keyboards_ = kbs
  /\ monitor_ = DeviceMonitor(0, NoResources).obj
  /\ os_res = DeviceMonitor(0, NoResources).os
  /\ kd_objs = NoObjects
  /\ kd_call = KdNoCall
  /\ dm_call = DmNoCall
  /\ udev_queue = <<>>
  /\ evbuf = [p \in Paths |-> <<>>]
  /\ held = [p \in Paths |-> {}]
  /\ sink_last = <<>>
  /\ last_tick = [path |-> "none", log |-> <<>>, notes |-> <<>>]
  /\ budget = [events |-> 0, plugs |-> 0, orphans |-> {}]

Errors == {"NoError", "ConnectionError"}

(* One keyboard, every kind of key, every way the loop stops. *)
Init == MainInit(<<[path |-> "/dev/input/event0"]>>)

Next ==
  \/ Tick
  \/ \E signum \in {SIGINT, SIGTERM} : SignalHandler(signum)
  \/ ServiceDiscovered
  \/ Disconnected
  \/ \E error \in Errors : ErrorOccurred(error)
  \/ ConnectionTimeout
  \/ \E code \in LoopCodes, value \in {0, 1, 2} : KeyEvent("/dev/input/event0", code, value)

Spec == Init /\ [][Next]_vars

(* One keyboard with the keys of the exit hotkey and one key more, long *)
(* enough for events to be buffered behind the press that triggers it.   *)
MaxExitEvents == 4

ExitCodes == {KEY_LEFTCTRL, KEY_LEFTALT, KEY_H, KEY_A}

ExitNext ==
  \/ Tick
  \/ ServiceDiscovered
  \/ \E code \in ExitCodes, value \in {0, 1, 2} :
        KeyEventUpTo("/dev/input/event0", code, value, MaxExitEvents)

SpecExit == Init /\ [][ExitNext]_vars

(* Several keyboards that come and go, feeding the one kb_state. *)
MultiCodes == {KEY_A, KEY_LEFTCTRL}

MultiInit ==
  \E kbs \in {<<[path |-> "/dev/input/event0"]>>,
              <<[path |-> "/dev/input/event0"], [path |-> "/dev/input/event1"]>>} :
     MainInit(kbs)

MultiNext ==
  \/ Tick
  \/ \E signum \in {SIGINT, SIGTERM} : SignalHandler(signum)
  \/ ServiceDiscovered
  \/ \E d \in Paths, code \in MultiCodes, value \in {0, 1, 2} : KeyEvent(d, code, value)
  \/ \E d \in Paths : Plug(d)
  \/ \E d \in Paths : Unplug(d)

SpecMulti == MultiInit /\ [][MultiNext]_vars

(* Two keyboards that stay plugged in, with the keys of the exit hotkey. *)
OrderCodes == {KEY_A, KEY_LEFTCTRL, KEY_LEFTALT, KEY_H}

OrderInit == MainInit(<<[path |-> "/dev/input/event0"], [path |-> "/dev/input/event1"]>>)

OrderNext ==
  \/ Tick
  \/ ServiceDiscovered
  \/ \E d \in Paths, code \in OrderCodes, value \in {0, 1, 2} : KeyEvent(d, code, value)

SpecOrder == OrderInit /\ [][OrderNext]_vars

(* ------------------------------------------------------------------ *)
(* KeyboardManager driven directly through its public interface        *)
(* ------------------------------------------------------------------ *)
MaxQueued == 2

(* udev actions: only "add" and "remove" reach a callback. *)
Actions == {"add", "remove", "change"}

(* The event nodes udev reports: those of the keyboards and one of a *)
(* device that is never a keyboard.                                   *)
DmNodes == Paths \cup {"/dev/input/event2"}

(* What udev queues: a keyboard node added or removed, a node changed, *)
(* the node that is no keyboard removed.                                *)
Notifications ==
  {[action |-> a, path |-> d] : a \in {"add", "remove"}, d \in Paths}
    \cup {[action |-> a, path |-> "/dev/input/event2"] : a \in Actions \ {"add"}}

(* enumerate_keyboards: one handle per keyboard plugged in, in the order *)
(* udev lists them.                                                      *)
enumerate_keyboards(plugged) ==
  {kbs \in UNION {[1..n -> [path : plugged]] : n \in 0..Cardinality(plugged)} :
     /\ Len(kbs) = Cardinality(plugged)
     /\ \A i, j \in 1..Len(kbs) : i # j => kbs[i].path # kbs[j].path}

(* KeyboardManager(): the monitor may fail to initialise; keyboards are *)
(* enumerated only when it is valid.                                    *)
DmInit ==
  /\ KsObjectInit
  /\ HkObjectInit
  /\ g_running = TRUE
  /\ sendReport = FALSE
  /\ app_quit = FALSE
  /\ \E fail \in 0..5 :
       /\ monitor_ = DeviceMonitor(fail, NoResources).obj
       /\ os_res = DeviceMonitor(fail, NoResources).os
  /\ kd_objs = NoObjects
  /\ kd_call = KdNoCall
  /\ present \in SUBSET Paths
  /\ keyboards_ \in (IF DeviceMonitor_is_valid(monitor_) THEN enumerate_keyboards(present)
                      ELSE {<<>>})
  /\ dm_call = DmNoCall
  /\ udev_queue = <<>>
  /\ evbuf = [p \in Paths |-> <<>>]
  /\ held = [p \in Paths |-> {}]
  /\ sink_last = <<>>
  /\ last_tick = [path |-> "none", log |-> <<>>, notes |-> <<>>]
  /\ budget = [events |-> 0, plugs |-> 0, orphans |-> {}]

DM_update_devices ==
  LET dm == update_devices(keyboards_, monitor_, udev_queue, present, evbuf, held) IN
  /\ keyboards_' = dm.kbs
  /\ udev_queue' = dm.queue
  /\ evbuf' = dm.buf
  /\ held' = dm.hld
  /\ dm_call' = [op |-> "update_devices", ret |-> dm.changed, fds |-> <<>>,
                 pre |-> keyboards_, edits |-> dm.edits, dups |-> dm.dups,
                 misses |-> dm.misses, calls |-> Len(dm.calls)]
  /\ UNCHANGED <<ksVars, hkVars, kdVars, monitor_, g_running, sendReport, app_quit, present,
                 sink_last, last_tick, budget>>

DM_get_poll_fds ==
  /\ dm_call' = [op |-> "get_poll_fds", ret |-> FALSE,
                 fds |-> get_poll_fds(keyboards_, monitor_),
                 pre |-> keyboards_, edits |-> 0, dups |-> 0, misses |-> 0, calls |-> 0]
  /\ UNCHANGED <<ksVars, hkVars, kdVars, monitor_, keyboards_, udev_queue, evbuf, held, g_running,
                 sendReport, app_quit, present, sink_last, last_tick, budget>>

(* udev queues a notification for an event node on the monitor socket. *)
DM_Notify(n) ==
  /\ DeviceMonitor_is_valid(monitor_)
  /\ Len(udev_queue) < MaxQueued
  /\ udev_queue' = Append(udev_queue, n)
  /\ UNCHANGED <<ksVars, hkVars, dmVars, kdVars, keyboards_, evbuf, held, g_running,
                 sendReport, app_quit, present, sink_last, last_tick, budget>>

(* A keyboard appears at, or disappears from, the device node d. *)
DM_Attach(d) ==
  /\ d \notin present
  /\ present' = present \cup {d}
  /\ UNCHANGED <<ksVars, hkVars, dmVars, kdVars, keyboards_, udev_queue, evbuf, held, g_running,
                 sendReport, app_quit, sink_last, last_tick, budget>>

DM_Detach(d) ==
  /\ d \in present
  /\ present' = present \ {d}
  /\ UNCHANGED <<ksVars, hkVars, dmVars, kdVars, keyboards_, udev_queue, evbuf, held, g_running,
                 sendReport, app_quit, sink_last, last_tick, budget>>

DmNext ==
  \/ DM_update_devices
  \/ DM_get_poll_fds
  \/ \E n \in Notifications : DM_Notify(n)
  \/ \E d \in Paths : DM_Attach(d)
  \/ \E d \in Paths : DM_Detach(d)

SpecDM == DmInit /\ [][DmNext]_vars

(* ================================================================== *)
(* Properties of the poll loop (checked under Spec and SpecMulti)      *)
(* ================================================================== *)
TickEvents == {last_tick.log[k] : k \in 1..Len(last_tick.log)}

InKeyboardTable(code) == code \in DOMAIN kKeyboardUsage

CtrlAReport == <<1, 0, 4, 0, 0, 0, 0, 0>>
CtrlReport == <<1, 0, 0, 0, 0, 0, 0, 0>>

(* C1: a release event of a mapped key delivers the report of the keyboard *)
(* state after the release, so keys and modifiers still held stay asserted: *)
(* with only Left-Ctrl still down the report is [0x01,0,0,0,0,0,0,0].       *)
C1_ReleaseSendsStateReport ==
  \A e \in TickEvents :
    (e.value = 0 /\ InKeyboardTable(e.code)) =>
       /\ e.sent = <<get_report(e.kb).ret>>
       /\ e.down = {KEY_LEFTCTRL} => e.sent = <<CtrlReport>>

(* C2 as stated: every press or auto-repeat event of a key in the keyboard *)
(* table delivers exactly one report, the get_report() of the state after  *)
(* the event.                                                              *)
C2_Original ==
  \A e \in TickEvents :
    (e.value \in {1, 2} /\ InKeyboardTable(e.code)) =>
       /\ Len(e.sent) = 1
       /\ e.sent[1] = get_report(e.kb).ret

(* C2 amended: every press or auto-repeat event of a key in the keyboard   *)
(* table that does not trigger the exit hotkey delivers exactly one 8-byte *)
(* report, the get_report() of the state after the event (Left-Ctrl down   *)
(* then 'A' down gives [0x01,0,0x04,0,0,0,0,0]); the press that triggers   *)
(* the exit hotkey delivers exactly one all-zero report instead.           *)
C2_PressSendsStateReport ==
  \A e \in TickEvents :
    (e.value \in {1, 2} /\ InKeyboardTable(e.code)) =>
       /\ Len(e.sent) = 1
       /\ Len(e.sent[1]) = KEYBOARD_REPORT_SIZE
       /\ e.trig => e.sent[1] = ZeroReport
       /\ ~e.trig => e.sent[1] = get_report(e.kb).ret
       /\ (~e.trig /\ e.down = {KEY_LEFTCTRL, KEY_A}) => e.sent[1] = CtrlAReport

C2_Witness ==
  \E e \in TickEvents :
    /\ e.code = KEY_A
    /\ e.value = 2
    /\ e.down = {KEY_LEFTCTRL, KEY_A}
    /\ e.sent = <<CtrlAReport>>

(* C3: once the loop has stopped (running flag false), the last keyboard *)
(* report the sink received is all zeros.                                *)
C3_ZeroReportBeforeStop ==
  (~g_running /\ sink_last # <<>>) => sink_last = ZeroReport

(* Usages of the non-modifier keys that are down on some keyboard. *)
HeldKeyUsages ==
  {kKeyboardUsage[c] : c \in {k \in UNION {held[d] : d \in Paths} :
                               InKeyboardTable(k) /\ ~is_modifier(kKeyboardUsage[k])}}

(* Nothing is waiting to be read: no key event, no hot-plug notification. *)
Quiescent ==
  /\ udev_queue = <<>>
  /\ \A d \in Paths : evbuf[d] = <<>>

(* C4: while the loop runs, a non-modifier usage is in the pressed-key set *)
(* iff the key is down on some attached keyboard.                          *)
C4_PressedIffHeld ==
  (g_running /\ ~app_quit /\ Quiescent) => kb_state.pressed_keys_ = HeldKeyUsages

(* ================================================================== *)
(* Properties of KeyboardState (checked under SpecKS)                  *)
(* ================================================================== *)
RECURSIVE SumOf(_)
SumOf(S) == IF S = {} THEN 0 ELSE LET x == CHOOSE y \in S : TRUE IN x + SumOf(S \ {x})

(* How many of bytes 2..7 of a report (C indices) are non-zero. *)
NonZeroCount(rep) == Cardinality({i \in 3..8 : rep[i] # 0})

(* The n smallest elements of S. *)
Smallest(S, n) == {k \in S : Cardinality({j \in S : j < k}) < n}

(* Non-modifier usages, and the modifier bitmap, that the history of *)
(* set_key_state calls leaves pressed (last write wins).             *)
TruePressedKeys == {u \in ks_held : u < MODIFIER_BASE \/ u > MODIFIER_MAX}
FoldedModifiers == SumOf({2 ^ n : n \in {m \in 0..7 : (MODIFIER_BASE + m) \in ks_held}})

C7_ModifierFold ==
  /\ get_report(kb_state).ret[1] = FoldedModifiers
  /\ ks_call.op = "get_report" => ks_call.ret[1] = FoldedModifiers

C7_Witness ==
  /\ ks_call.op = "get_report"
  /\ ks_call.ret[1] = 129
  /\ 232 \in kb_state.pressed_keys_

(* C11: clear() followed by get_report() returns eight zero bytes, with *)
(* modifier bitmap 0 and pressed-key count 0, from any reachable state. *)
C11_ClearThenReport ==
  /\ get_report(clear(kb_state)).ret = ZeroReport
  /\ get_modifiers(clear(kb_state)) = 0
  /\ get_pressed_key_count(clear(kb_state)) = 0
  /\ (ks_call.op = "get_report" /\ ks_call.prev.op = "clear") =>
        /\ ks_call.ret = ZeroReport
        /\ get_modifiers(kb_state) = 0
        /\ get_pressed_key_count(kb_state) = 0

C11_Witness ==
  /\ ks_call.op = "get_report"
  /\ ks_call.prev.op = "clear"
  /\ ks_call.ret = ZeroReport

(* The report computed from the modifier bitmap and the pressed-key set alone. *)
FreshReport ==
  WriteKeys([ZeroReport EXCEPT ![1] = kb_state.modifiers_], kb_state.pressed_keys_, 2)

(* C12: two consecutive get_report() calls return identical buffers, and *)
(* what get_report() returns is always the report computed from the      *)
(* current modifier bitmap and pressed-key set: the cache is never stale. *)
C12_ReportNotStale ==
  /\ (ks_call.op = "get_report" /\ ks_call.prev.op = "get_report") =>
        ks_call.ret = ks_call.prev.ret
  /\ ks_call.op = "get_report" => ks_call.ret = FreshReport
  /\ get_report(kb_state).ret = FreshReport
  /\ get_report(get_report(kb_state).st) = get_report(kb_state)

C12_Witness ==
  /\ ks_call.op = "get_report"
  /\ ks_call.prev.op = "get_report"
  /\ ks_call.ret[1] # 0
  /\ ks_call.ret[8] # 0

(* C13: apply_key_event with a code that is not in the keyboard table     *)
(* returns false for every value and leaves the modifier bitmap, the      *)
(* pressed-key set, the cached report and the dirty flag unchanged.       *)
C13_UnmappedUnhandled ==
  [][(ks_call'.op = "apply_key_event" /\ ~InKeyboardTable(ks_call'.args[1])) =>
        /\ ks_call'.ret = <<FALSE>>
        /\ kb_state' = kb_state]_vars

C13_Witness ==
  /\ ks_call.op = "apply_key_event"
  /\ ks_call.args = <<KEY_UNMAPPED, 1>>
  /\ ks_call.ret = <<FALSE>>
  /\ kb_state.pressed_keys_ # {}
  /\ ~kb_state.report_dirty_

(* C15: make_consumer_report(code, value) returns the consumer usage of   *)
(* code as two bytes, low byte first, when value is 1 and code is in the   *)
(* consumer table, and [0,0] for every other (code, value); it depends on  *)
(* nothing else.                                                           *)
C15_ConsumerReport ==
  ks_call.op = "make_consumer_report" =>
    LET c == ks_call.args[1]
        v == ks_call.args[2]
        r == ks_call.ret
    IN /\ Len(r) = CONSUMER_REPORT_SIZE
       /\ (v = 1 /\ c \in DOMAIN kConsumerUsage) =>
             /\ r[1] + 256 * r[2] = kConsumerUsage[c]
             /\ r[1] \in 0..255
             /\ r[2] \in 0..255
       /\ ~(v = 1 /\ c \in DOMAIN kConsumerUsage) => r = <<0, 0>>
       /\ ks_call.args = <<KEY_MUTE, 1>> => r = <<226, 0>>

C15_Witness ==
  /\ ks_call.op = "make_consumer_report"
  /\ ks_call.args[2] = 1
  /\ ks_call.ret[1] # 0
  /\ ks_call.ret[2] # 0

(* C16: in the poll loop a press of a key that is absent from the keyboard *)
(* table and present in the consumer table delivers the 2-byte consumer    *)
(* report of the consumer encoder to the sink.                             *)
C16_MediaKeyRouted ==
  \A e \in TickEvents :
    (e.value = 1 /\ ~InKeyboardTable(e.code) /\ e.code \in DOMAIN kConsumerUsage) =>
       e.sent = <<make_consumer_report(e.code, e.value)>>

(* C17: in the poll loop an event whose code is in neither table sends no *)
(* report and changes no keyboard state.                                   *)
C17_UnknownKeyIgnored ==
  \A e \in TickEvents :
    (~InKeyboardTable(e.code) /\ e.code \notin DOMAIN kConsumerUsage) =>
       /\ e.sent = <<>>
       /\ HandleKeyValue(e.kb, e.code, e.value).kb = e.kb

(* Usage u is asserted in keyboard state st. *)
Asserted(st, u) ==
  IF is_modifier(u) THEN BitIsSet(st.modifiers_, modifier_bit(u)) ELSE u \in st.pressed_keys_

(* C14: apply_key_event with value 2 (repeat) has exactly the effect of  *)
(* value 1 (press): the key or modifier is set, and pressing or repeating *)
(* one that is already held leaves the bitmap and the key set unchanged.  *)
C14_RepeatIsPress ==
  [][(ks_call'.op = "apply_key_event" /\ ks_call'.args[2] \in {1, 2}) =>
        LET c == ks_call'.args[1] IN
        /\ kb_state' = apply_key_event(kb_state, c, 1).st
        /\ kb_state' = apply_key_event(kb_state, c, 2).st
        /\ ks_call'.ret = <<apply_key_event(kb_state, c, 1).ret>>
        /\ ks_call'.ret = <<apply_key_event(kb_state, c, 2).ret>>
        /\ InKeyboardTable(c) =>
              /\ Asserted(kb_state', kKeyboardUsage[c])
              /\ Asserted(kb_state, kKeyboardUsage[c]) =>
                    /\ kb_state'.modifiers_ = kb_state.modifiers_
                    /\ kb_state'.pressed_keys_ = kb_state.pressed_keys_]_vars

(* A repeat of 'A' was the only call since a report showing 'A' was read. *)
C14_Witness ==
  /\ ks_call.op = "apply_key_event"
  /\ ks_call.args = <<KEY_A, 2>>
  /\ ks_pending = 1
  /\ kb_state.report_[3] = 4
  /\ 4 \in kb_state.pressed_keys_

(* C28 as the specification words it: a key that rollover left out of a *)
(* report appears in no report until fewer than six keys are held.      *)
C28_Original ==
  ks_rollover.readmitted # {} => Cardinality(kb_state.pressed_keys_) < 6

(* C28: a key that rollover leaves out of the report stays in the tracked *)
(* set until it is released, and a later report shows it exactly when it  *)
(* is among the six smallest held codes, which is the case as soon as no  *)
(* more than six keys are held.                                           *)
C28_RolloverTracked ==
  /\ ks_rollover.excluded \subseteq kb_state.pressed_keys_
  /\ kb_state.pressed_keys_ = TruePressedKeys
  /\ ks_call.op = "get_report" =>
        /\ ks_rollover.excluded = kb_state.pressed_keys_ \ Smallest(kb_state.pressed_keys_, 6)
        /\ ks_rollover.readmitted \subseteq Smallest(kb_state.pressed_keys_, 6)
        /\ Cardinality(kb_state.pressed_keys_) <= 6 => ks_rollover.excluded = {}
  /\ \A k \in ks_rollover.excluded :
        set_key_state(kb_state, k, FALSE).pressed_keys_ = kb_state.pressed_keys_ \ {k}

(* Seven keys were held and reported, one of the reported six was released, *)
(* and the next report shows the key that had been left out.                *)
C28_Witness ==
  /\ ks_call.op = "get_report"
  /\ ks_rollover.readmitted # {}
  /\ Cardinality(kb_state.pressed_keys_) = 6
  /\ \E i \in 3..8 : ks_call.ret[i] \in ks_rollover.readmitted

(* C30: a new KeyboardState is dirty; get_report() leaves it not dirty;   *)
(* every set_key_state and every clear leaves it dirty, also when the     *)
(* call changes neither the modifier bitmap nor the pressed-key set.      *)
C30_DirtyFlag ==
  /\ is_dirty(KeyboardStateInit)
  /\ ks_call.op = "new" => is_dirty(kb_state)
  /\ ks_call.op = "get_report" => ~is_dirty(kb_state)
  /\ ks_call.op \in {"set_key_state", "clear"} => is_dirty(kb_state)
  /\ ~is_dirty(get_report(kb_state).st)
  /\ is_dirty(clear(kb_state))
  /\ \A u \in KsUsages, p \in BOOLEAN : is_dirty(set_key_state(kb_state, u, p))

(* The one call made since a report was read was a set_key_state that *)
(* changed nothing: the cached report is still the right one.         *)
C30_Witness ==
  /\ ks_call.op = "set_key_state"
  /\ ks_pending = 1
  /\ is_dirty(kb_state)
  /\ kb_state.pressed_keys_ # {}
  /\ Cardinality(kb_state.pressed_keys_) <= 6
  /\ kb_state.report_ = FreshReport

(* ------------------------------------------------------------------ *)
(* DeviceMonitor::process_events called directly                       *)
(* ------------------------------------------------------------------ *)
PeNodes == {"/dev/input/event0", "/dev/input/event1", "/dev/input/mouse0", NullDevnode}

PeQueues ==
  UNION {[1..n -> [action : Actions, path : PeNodes]] : n \in 0..MaxQueued}

(* A monitor, valid or not, and the notifications the kernel holds for it. *)
PeInit ==
  /\ KsObjectInit
  /\ HkObjectInit
  /\ g_running = TRUE
  /\ sendReport = FALSE
  /\ app_quit = FALSE
  /\ \E fail \in 0..5 :
       /\ monitor_ = DeviceMonitor(fail, NoResources).obj
       /\ os_res = DeviceMonitor(fail, NoResources).os
  /\ kd_objs = NoObjects
  /\ kd_call = KdNoCall
  /\ present = {}
  /\ keyboards_ = <<>>
  /\ dm_call = DmNoCall
  /\ udev_queue \in PeQueues
  /\ evbuf = [p \in Paths |-> <<>>]
  /\ held = [p \in Paths |-> {}]
  /\ sink_last = <<>>
  /\ last_tick = [path |-> "none", log |-> <<>>, notes |-> <<>>]
  /\ budget = [events |-> 0, plugs |-> 0, orphans |-> {}]

PE_process_events ==
  LET r == process_events(monitor_, udev_queue) IN
  /\ udev_queue' = r.queue
  /\ dm_call' = [op |-> "process_events", ret |-> r.ret, pre |-> udev_queue,
                 invoked |-> r.calls]
  /\ UNCHANGED <<ksVars, hkVars, kdVars, monitor_, keyboards_, evbuf, held, g_running,
                 sendReport, app_quit, present, sink_last, last_tick, budget>>

PeNext == PE_process_events

SpecPE == PeInit /\ [][PeNext]_vars

(* ------------------------------------------------------------------ *)
(* KeyboardDevice objects and the collection that owns them            *)
(* ------------------------------------------------------------------ *)
MaxOpens == 2

KdPaths == {"", "/dev/input/event0", "/dev/input/event1"}

(* What a path can lead to: nothing that opens, a file libevdev cannot  *)
(* read, a device without keys, one with keys but no letters, a keyboard. *)
KdNodes ==
  {[open_ok |-> FALSE, parse_ok |-> FALSE, caps |-> [types |-> {}, keys |-> {}]],
   [open_ok |-> TRUE, parse_ok |-> FALSE, caps |-> [types |-> {}, keys |-> {}]],
   [open_ok |-> TRUE, parse_ok |-> TRUE, caps |-> [types |-> {"EV_REL"}, keys |-> {}]],
   [open_ok |-> TRUE, parse_ok |-> TRUE, caps |-> [types |-> {"EV_KEY"}, keys |-> {KEY_MUTE}]],
   [open_ok |-> TRUE, parse_ok |-> TRUE, caps |-> [types |-> {"EV_KEY"}, keys |-> {KEY_A, KEY_H}]]}

Opens(os) == Cardinality({r \in os.acquired : r[1] = "fd"})

KdMayOpen(device_path, node) ==
  (device_path # "" /\ node.open_ok) => Opens(os_res) < MaxOpens

KdInit == KsObjectInit /\ HkObjectInit /\ LoopIdleInit

KdUnchanged ==
  UNCHANGED <<ksVars, hkVars, monitor_, dm_call, g_running, sendReport, app_quit, udev_queue,
              present, evbuf, held, sink_last, last_tick, budget>>

(* KeyboardDevice s(device_path); *)
KD_Construct(s, device_path, node) ==
  LET w == KeyboardDevice(device_path, node, os_res) IN
  /\ kd_objs[s] = <<>>
  /\ KdMayOpen(device_path, node)
  /\ kd_objs' = [kd_objs EXCEPT ![s] = <<w.obj>>]
  /\ os_res' = w.os
  /\ kd_call' = [KdNoCall EXCEPT !.op = "ctor", !.path = device_path, !.node = <<node>>,
                                 !.obj = w.obj, !.took = w.os.acquired \ os_res.acquired,
                                 !.released = Len(w.os.released) - Len(os_res.released)]
  /\ UNCHANGED keyboards_
  /\ KdUnchanged

(* KeyboardDevice d(std::move(s)); *)
KD_MoveConstruct(d, s) ==
  /\ d # s
  /\ kd_objs[d] = <<>>
  /\ kd_objs[s] # <<>>
  /\ LET m == KeyboardDevice_move(kd_objs[s][1]) IN
       /\ kd_objs' = [kd_objs EXCEPT ![d] = <<m.obj>>, ![s] = <<m.other>>]
       /\ kd_call' = [KdNoCall EXCEPT !.op = "move_ctor", !.obj = m.other]
  /\ UNCHANGED <<keyboards_, os_res>>
  /\ KdUnchanged

(* d = std::move(s); d and s may be the same object. *)
KD_MoveAssign(d, s) ==
  /\ kd_objs[d] # <<>>
  /\ kd_objs[s] # <<>>
  /\ LET m == KeyboardDevice_move_assign(kd_objs[d][1], kd_objs[s][1], d = s, os_res) IN
       /\ kd_objs' = IF d = s THEN [kd_objs EXCEPT ![d] = <<m.obj>>]
                     ELSE [kd_objs EXCEPT ![d] = <<m.obj>>, ![s] = <<m.other>>]
       /\ os_res' = m.os
       /\ kd_call' = [KdNoCall EXCEPT !.op = "move_assign", !.obj = m.other, !.same = (d = s),
                                      !.released = Len(m.os.released) - Len(os_res.released)]
  /\ UNCHANGED keyboards_
  /\ KdUnchanged

(* s goes out of scope. *)
KD_Destroy(s) ==
  /\ kd_objs[s] # <<>>
  /\ kd_objs' = [kd_objs EXCEPT ![s] = <<>>]
  /\ os_res' = KeyboardDevice_destroy(kd_objs[s][1], os_res)
  /\ kd_call' = [KdNoCall EXCEPT !.op = "dtor", !.obj = kd_objs[s][1],
                                 !.moved = kd_objs[s][1].moved_from,
                                 !.released = Len(os_res'.released) - Len(os_res.released)]
  /\ UNCHANGED keyboards_
  /\ KdUnchanged

(* KeyboardManager::add_device on a collection of handles; realloc says *)
(* whether the vector has to grow.                                      *)
KD_add_device(device_path, node, realloc) ==
  /\ KdMayOpen(device_path, node)
  /\ IF \E i \in 1..Len(keyboards_) : keyboards_[i].path_ = device_path
     THEN /\ kd_call' = [KdNoCall EXCEPT !.op = "add_device", !.path = device_path]
          /\ UNCHANGED <<keyboards_, os_res>>
     ELSE LET kbd == KeyboardDevice(device_path, node, os_res)
              e == emplace_back(keyboards_, kbd.obj, realloc, kbd.os)
              grown == KeyboardDevice_is_valid(kbd.obj)
              after == KeyboardDevice_destroy(IF grown THEN e.other ELSE kbd.obj,
                                              IF grown THEN e.os ELSE kbd.os)
          IN /\ keyboards_' = IF grown THEN e.vec ELSE keyboards_
             /\ os_res' = after
             /\ kd_call' = [KdNoCall EXCEPT !.op = "add_device", !.path = device_path,
                                            !.node = <<node>>, !.obj = kbd.obj,
                                            !.took = after.acquired \ os_res.acquired,
                                            !.released = Len(after.released) - Len(os_res.released)]
  /\ UNCHANGED kd_objs
  /\ KdUnchanged

(* KeyboardManager::remove_device on a collection of handles. *)
KD_remove_device(device_path) ==
  /\ keyboards_ # <<>>
  /\ IF \E i \in 1..Len(keyboards_) : keyboards_[i].path_ = device_path
     THEN LET it == CHOOSE i \in 1..Len(keyboards_) :
                      /\ keyboards_[i].path_ = device_path
                      /\ \A j \in 1..(i - 1) : keyboards_[j].path_ # device_path
              e == erase(keyboards_, it, os_res)
          IN /\ keyboards_' = e.vec
             /\ os_res' = e.os
             /\ kd_call' = [KdNoCall EXCEPT !.op = "remove_device", !.path = device_path,
                                            !.obj = keyboards_[it],
                                            !.released = Len(e.os.released) - Len(os_res.released)]
     ELSE /\ kd_call' = [KdNoCall EXCEPT !.op = "remove_device", !.path = device_path]
          /\ UNCHANGED <<keyboards_, os_res>>
  /\ UNCHANGED kd_objs
  /\ KdUnchanged

KdNext ==
  \/ \E s \in Slots, p \in KdPaths, node \in KdNodes : KD_Construct(s, p, node)
  \/ \E d \in Slots, s \in Slots : KD_MoveConstruct(d, s)
  \/ \E d \in Slots, s \in Slots : KD_MoveAssign(d, s)
  \/ \E s \in Slots : KD_Destroy(s)
  \/ \E p \in KdPaths, node \in KdNodes, realloc \in BOOLEAN : KD_add_device(p, node, realloc)
  \/ \E p \in KdPaths : KD_remove_device(p)

SpecKD == KdInit /\ [][KdNext]_vars

(* ================================================================== *)
(* Properties of KeyboardManager (checked under SpecDM)                *)
(* ================================================================== *)
PathsOf(kbs) == [i \in 1..Len(kbs) |-> kbs[i].path]

C19_NoDuplicateHandles ==
  /\ \A i, j \in 1..Len(keyboards_) : i # j => keyboards_[i].path # keyboards_[j].path
  /\ \A d \in Paths :
       HasPath(keyboards_, d) =>
         /\ add_device([kbs |-> keyboards_, buf |-> evbuf, hld |-> held], d, present).kbs
              = keyboards_
         /\ update_devices(keyboards_, monitor_, <<[action |-> "add", path |-> d]>>,
                           present, evbuf, held).kbs = keyboards_
  /\ (dm_call.op = "update_devices" /\ dm_call.dups > 0 /\ dm_call.edits = 0) =>
        keyboards_ = dm_call.pre

(* The same path was added twice to an empty collection: one handle. *)
C19_Witness ==
  /\ dm_call.op = "update_devices"
  /\ dm_call.pre = <<>>
  /\ dm_call.edits = 1
  /\ dm_call.dups = 1
  /\ Len(keyboards_) = 1

(* C20: update_devices() returns true iff at least one handle was *)
(* appended or erased during the call.                            *)
C20_ChangedIffEdited ==
  dm_call.op = "update_devices" => (dm_call.ret <=> dm_call.edits > 0)

(* ================================================================== *)
(* Properties of ExitHotkeyDetector (checked under SpecHK)             *)
(* ================================================================== *)

(* C8: process_key_event returns triggered iff the event is a press      *)
(* (value=1) of H while the ctrl and alt flags are both set; a press of   *)
(* the left or right variant sets the flag.                              *)
C8_TriggerIff ==
  /\ hk_call.ret <=> (/\ hk_call.code = KEY_H
                      /\ hk_call.value = 1
                      /\ hk_call.pre.ctrl_pressed_
                      /\ hk_call.pre.alt_pressed_)
  /\ (hk_call.value = 1 /\ hk_call.code \in {KEY_LEFTCTRL, KEY_RIGHTCTRL})
        => hotkey_detector.ctrl_pressed_
  /\ (hk_call.value = 1 /\ hk_call.code \in {KEY_LEFTALT, KEY_RIGHTALT})
        => hotkey_detector.alt_pressed_

C8_Witness ==
  /\ hk_call.ret
  /\ hk_call.code = KEY_H
  /\ hk_call.pre.h_pressed_

(* The last call re-pressed the letter after the chord Ctrl, Alt, H had *)
(* triggered and only releases of the three keys followed.              *)
RepressAfterChord ==
  /\ hk_call.code = KEY_H
  /\ hk_call.value = 1
  /\ hk_call.chord.stage = 3

(* C9 as stated: after Ctrl, Alt, H were pressed, releasing any one of the *)
(* three keys and re-pressing the letter does not trigger.                 *)
C9_Original ==
  (RepressAfterChord /\ hk_call.chord.rel \in {{"ctrl"}, {"alt"}, {"h"},
                                                {"ctrl", "h"}, {"alt", "h"}})
    => ~hk_call.ret

(* C9 amended: after Ctrl, Alt, H were pressed (which triggered), releasing *)
(* Ctrl or Alt and re-pressing the letter does not trigger; releasing only  *)
(* the letter and re-pressing it while Ctrl and Alt stay down triggers.     *)
C9_Amended ==
  /\ (hk_call.chord.stage = 2 /\ hk_call.code = KEY_H /\ hk_call.value = 1) => hk_call.ret
  /\ (RepressAfterChord /\ hk_call.chord.rel \cap {"ctrl", "alt"} # {}) => ~hk_call.ret
  /\ (RepressAfterChord /\ hk_call.chord.rel = {"h"}) => hk_call.ret

C9_Witness ==
  /\ RepressAfterChord
  /\ hk_call.chord.rel = {"ctrl", "h"}
  /\ ~hk_call.ret

(* C10: a press of the letter before both modifiers are down does not     *)
(* trigger; while the letter stays held no Ctrl or Alt event triggers;    *)
(* the next press of the letter made with both flags set triggers.        *)
C10_LetterFirst ==
  /\ (hk_call.code = KEY_H /\ hk_call.value = 1
        /\ ~(hk_call.pre.ctrl_pressed_ /\ hk_call.pre.alt_pressed_)) => ~hk_call.ret
  /\ (hk_call.early /\ HkKind(hk_call.code) \in {"ctrl", "alt"})
        => (~hk_call.ret /\ hk_early /\ hotkey_detector.h_pressed_)
  /\ (hk_call.early /\ hk_call.code = KEY_H /\ hk_call.value = 1
        /\ hk_call.pre.ctrl_pressed_ /\ hk_call.pre.alt_pressed_) => hk_call.ret

C10_Witness ==
  /\ hk_call.early
  /\ hk_call.code = KEY_H
  /\ hk_call.value = 1
  /\ hk_call.ret

(* C29: process_key_event with a code other than left/right Ctrl,       *)
(* left/right Alt or H returns not triggered and leaves the three flags  *)
(* unchanged; an event for a tracked key changes only that key's flag.   *)
C29_OnlyOwnFlag ==
  LET pre == hk_call.pre
      now == hotkey_detector
      kind == HkKind(hk_call.code)
  IN /\ kind = "other" => (~hk_call.ret /\ now = pre)
     /\ kind = "ctrl" => (now.alt_pressed_ = pre.alt_pressed_ /\ now.h_pressed_ = pre.h_pressed_)
     /\ kind = "alt" => (now.ctrl_pressed_ = pre.ctrl_pressed_ /\ now.h_pressed_ = pre.h_pressed_)
     /\ kind = "h" => (now.ctrl_pressed_ = pre.ctrl_pressed_ /\ now.alt_pressed_ = pre.alt_pressed_)

C29_Witness ==
  /\ hk_call.code = KEY_A
  /\ hk_call.value = 1
  /\ hk_call.pre.ctrl_pressed_
  /\ hk_call.pre.alt_pressed_
  /\ hk_call.pre.h_pressed_
  /\ ~hk_call.ret

(* C21: a remove notification for a path that has no handle in the    *)
(* collection leaves the collection unchanged: no handle is erased or *)
(* closed and the handles keep their order.                           *)
C21_RemoveUnknownPath ==
  LET dm == [kbs |-> keyboards_, buf |-> evbuf, hld |-> held] IN
  /\ \A p \in DmNodes : ~HasPath(keyboards_, p) => remove_device(dm, p) = dm
  /\ (/\ dm_call.op = "update_devices"
      /\ dm_call.calls > 0
      /\ dm_call.misses = dm_call.calls) => keyboards_ = dm_call.pre

(* Two handles were open and the only callback of the update was the *)
(* remove of a node that had no handle.                              *)
C21_Witness ==
  /\ dm_call.op = "update_devices"
  /\ dm_call.calls = 1
  /\ dm_call.misses = 1
  /\ Len(dm_call.pre) = 2
  /\ keyboards_ = dm_call.pre

(* Nodes named by the input-event convention, /dev/input/event<N>. *)
EventNodes == {"/dev/input/event0", "/dev/input/event1", "/dev/input/event2"}

ExpectedCallbacks(notes) ==
  LET hit == SelectSeq(notes, LAMBDA n : n.action \in {"add", "remove"} /\ n.path \in EventNodes)
  IN [i \in 1..Len(hit) |->
        [cb |-> IF hit[i].action = "add" THEN "on_add" ELSE "on_remove", path |-> hit[i].path]]

(* C22: one call of process_events on a valid monitor ends with the queue *)
(* empty, has invoked on_add or on_remove once, in queue order, for each  *)
(* add or remove notification of an event node, and returns true iff a    *)
(* notification was dequeued; on an invalid monitor it returns false and  *)
(* invokes no callback.                                                   *)
C22_ProcessEvents ==
  dm_call.op = "process_events" =>
    IF DeviceMonitor_is_valid(monitor_)
    THEN /\ udev_queue = <<>>
         /\ dm_call.invoked = ExpectedCallbacks(dm_call.pre)
         /\ dm_call.ret <=> dm_call.pre # <<>>
    ELSE /\ ~dm_call.ret
         /\ dm_call.invoked = <<>>
         /\ udev_queue = dm_call.pre

(* Two notifications were dequeued, one of them for no event node or of *)
(* another action, and exactly one callback ran.                        *)
C22_Witness ==
  /\ DeviceMonitor_is_valid(monitor_)
  /\ dm_call.op = "process_events"
  /\ Len(dm_call.pre) = 2
  /\ Len(dm_call.invoked) = 1
  /\ dm_call.ret
  /\ udev_queue = <<>>

(* ================================================================== *)
(* Order of the steps of one poll tick (checked under SpecMulti)       *)
(* ================================================================== *)

(* The step is a tick that went past the guard of the lambda. *)
TickRan ==
  /\ last_tick'.path \in {"nofds", "idle", "drained", "exit"}
  /\ budget' = budget
  /\ g_running /\ sendReport /\ ~app_quit

(* The action of the last notification queued for p, "none" without one. *)
LastAction(queue, p) ==
  LET idx == {i \in 1..Len(queue) : queue[i].path = p /\ queue[i].action \in {"add", "remove"}}
  IN IF idx = {} THEN "none" ELSE queue[SetMax(idx)].action

(* C26: in a tick every queued hot-plug notification is applied to the   *)
(* collection before a key event is read and the poll set is built from  *)
(* the updated collection: no event is read from a handle that was       *)
(* removed in this tick or in an earlier one.                            *)
C26_UpdateBeforeRead ==
  [][TickRan =>
       /\ udev_queue' = <<>>
       /\ last_tick'.notes = udev_queue
       /\ \A p \in Paths :
            /\ LastAction(udev_queue, p) = "remove" => ~HasPath(keyboards_', p)
            /\ (LastAction(udev_queue, p) = "add" /\ p \in present) => HasPath(keyboards_', p)
            /\ LastAction(udev_queue, p) = "none" =>
                  (HasPath(keyboards_', p) <=> HasPath(keyboards_, p))
       /\ \A i \in 1..Len(last_tick'.log) :
            /\ HasPath(keyboards_', last_tick'.log[i].dev)
            /\ LastAction(udev_queue, last_tick'.log[i].dev) # "remove"]_vars

(* The tick erased the handle of one keyboard and then read the events *)
(* of the other.                                                       *)
C26_Witness ==
  /\ last_tick.path = "drained"
  /\ last_tick.log # <<>>
  /\ \E i \in 1..Len(last_tick.notes) :
        /\ last_tick.notes[i].action = "remove"
        /\ ~HasPath(keyboards_, last_tick.notes[i].path)
  /\ Len(keyboards_) = 1

(* The events buffered on the handles of kbs, handle after handle. *)
RECURSIVE BufferedInOrder(_, _, _)
BufferedInOrder(kbs, buf, i) ==
  IF i > Len(kbs) THEN <<>>
  ELSE [j \in 1..Len(buf[kbs[i].path]) |->
          [dev |-> kbs[i].path, code |-> buf[kbs[i].path][j].code,
           value |-> buf[kbs[i].path][j].value]]
       \o BufferedInOrder(kbs, buf, i + 1)

ReadInOrder(log) ==
  [j \in 1..Len(log) |-> [dev |-> log[j].dev, code |-> log[j].code, value |-> log[j].value]]

(* C27: within a tick the events of one device are processed in arrival  *)
(* order and all buffered events of a ready device before any event of   *)
(* the next one, devices in collection order, unless the exit hotkey     *)
(* triggers and ends the tick.                                           *)
C27_EventOrder ==
  [][TickRan =>
       LET full == BufferedInOrder(keyboards_', evbuf, 1)
           got == ReadInOrder(last_tick'.log)
       IN IF \E j \in 1..Len(last_tick'.log) : last_tick'.log[j].trig
          THEN /\ Len(got) <= Len(full)
               /\ got = SubSeq(full, 1, Len(got))
               /\ \A j \in 1..Len(got) : last_tick'.log[j].trig <=> j = Len(got)
               /\ app_quit'
          ELSE got = full]_vars

(* Two events of the first keyboard, then one of the second. *)
C27_Witness ==
  /\ last_tick.path = "drained"
  /\ Len(last_tick.log) = 3
  /\ Len(keyboards_) = 2
  /\ last_tick.log[1].dev = keyboards_[1].path
  /\ last_tick.log[2].dev = keyboards_[1].path
  /\ last_tick.log[3].dev = keyboards_[2].path

(* ================================================================== *)
(* Construction of the monitor and the handles                         *)
(* ================================================================== *)

(* How often r was released. *)
TimesReleased(os, r) == Cardinality({i \in 1..Len(os.released) : os.released[i] = r})

AllReleasedOnce(os) == \A r \in os.acquired : TimesReleased(os, r) = 1

(* A stage of the constructor failed: nothing was acquired, or something *)
(* was given back.                                                       *)
MonitorConstructionFailed == os_res.acquired = {} \/ os_res.released # <<>>

(* C24: when one of the five stages of DeviceMonitor's constructor fails *)
(* the monitor is invalid, every resource it acquired is released and    *)
(* its fd is -1; it never becomes valid later, and update_devices() of   *)
(* the manager holding it returns false and leaves the empty collection  *)
(* unchanged.                                                            *)
C24_FailedMonitor ==
  /\ \A fail \in 1..5 :
        LET w == DeviceMonitor(fail, NoResources) IN
        /\ ~DeviceMonitor_is_valid(w.obj)
        /\ monitor_fd(w.obj) = INVALID_FD
        /\ AllReleasedOnce(w.os)
  /\ DeviceMonitor_is_valid(DeviceMonitor(0, NoResources).obj)
  /\ MonitorConstructionFailed =>
        /\ ~DeviceMonitor_is_valid(monitor_)
        /\ monitor_ = DeviceMonitorMembers
        /\ AllReleasedOnce(os_res)
        /\ keyboards_ = <<>>
        /\ udev_queue = <<>>
        /\ update_devices(keyboards_, monitor_, udev_queue, present, evbuf, held).changed = FALSE
        /\ update_devices(keyboards_, monitor_, udev_queue, present, evbuf, held).kbs = <<>>
        /\ dm_call.op = "update_devices" => (~dm_call.ret /\ dm_call.pre = <<>>)

(* The monitor was created and given back (a stage after the second *)
(* failed), keyboards are plugged in, update_devices() was called.   *)
C24_Witness ==
  /\ Cardinality(os_res.acquired) = 2
  /\ Len(os_res.released) = 2
  /\ ~DeviceMonitor_is_valid(monitor_)
  /\ present # {}
  /\ dm_call.op = "update_devices"
  /\ ~dm_call.ret
  /\ keyboards_ = <<>>

(* The live KeyboardDevice objects: the elements of the collection and *)
(* the objects with automatic storage.                                 *)
LiveHandles ==
  {<<"vec", i>> : i \in 1..Len(keyboards_)} \cup {<<"loc", s>> : s \in {t \in Slots : kd_objs[t] # <<>>}}

HandleAt(o) == IF o[1] = "vec" THEN keyboards_[o[2]] ELSE kd_objs[o[2]][1]

Holds(h, r) ==
  \/ r[1] = "fd" /\ h.fd_ = r[2]
  \/ r[1] = "evdev" /\ h.evdev_ = r[2]

Owners(r) == {o \in LiveHandles : Holds(HandleAt(o), r)}

(* C23: a handle is valid after construction iff the path is non-empty,  *)
(* open succeeded, the capabilities could be read and the device has key *)
(* events and the key A; otherwise it is invalid and holds no resource:  *)
(* fd closed and -1, libevdev context freed and null.                    *)
C23_ValidIffKeyboard ==
  kd_call.op = "ctor" =>
    LET node == kd_call.node[1]
        h == kd_call.obj
    IN /\ KeyboardDevice_is_valid(h) <=>
            /\ kd_call.path # ""
            /\ node.open_ok
            /\ node.parse_ok
            /\ "EV_KEY" \in node.caps.types
            /\ KEY_A \in node.caps.keys
       /\ KeyboardDevice_is_valid(h) =>
            /\ kd_call.took = {<<"fd", h.fd_>>, <<"evdev", h.evdev_>>}
            /\ kd_call.released = 0
       /\ ~KeyboardDevice_is_valid(h) =>
            /\ h.fd_ = INVALID_FD
            /\ h.evdev_ = NULL
            /\ \A r \in kd_call.took : TimesReleased(os_res, r) = 1
            /\ kd_call.released = Cardinality(kd_call.took)

(* A device with key events but without the key A was opened, read and *)
(* given back.                                                         *)
C23_Witness ==
  /\ kd_call.op = "ctor"
  /\ kd_call.node[1].caps.types = {"EV_KEY"}
  /\ KEY_A \notin kd_call.node[1].caps.keys
  /\ ~KeyboardDevice_is_valid(kd_call.obj)
  /\ Cardinality(kd_call.took) = 2
  /\ kd_call.released = 2

(* C25: every opened descriptor and libevdev context is owned by at most *)
(* one handle at a time and released exactly once, never twice and never *)
(* leaked; a moved-from handle is invalid and releases nothing when it   *)
(* is destroyed.                                                         *)
C25_SingleOwner ==
  /\ \A r \in os_res.acquired :
        /\ TimesReleased(os_res, r) <= 1
        /\ TimesReleased(os_res, r) = 0 => Cardinality(Owners(r)) = 1
        /\ TimesReleased(os_res, r) = 1 => Owners(r) = {}
  /\ \A i \in 1..Len(os_res.released) : os_res.released[i] \in os_res.acquired
  /\ \A o \in LiveHandles :
        LET h == HandleAt(o) IN
        /\ h.fd_ >= 0 => <<"fd", h.fd_>> \in os_res.acquired
        /\ h.evdev_ # NULL => <<"evdev", h.evdev_>> \in os_res.acquired
        /\ h.moved_from => ~KeyboardDevice_is_valid(h) /\ h.fd_ = INVALID_FD /\ h.evdev_ = NULL
  /\ (kd_call.op \in {"move_ctor", "move_assign"} /\ ~kd_call.same) =>
        ~KeyboardDevice_is_valid(kd_call.obj)
  /\ (kd_call.op = "dtor" /\ kd_call.moved) => kd_call.released = 0
  /\ LiveHandles = {} => AllReleasedOnce(os_res)

(* The first of two handles of the collection was erased: the second was *)
(* move-assigned into its place and only the erased one was released.    *)
C25_Witness ==
  /\ kd_call.op = "remove_device"
  /\ kd_call.released = 2
  /\ Len(keyboards_) = 1
  /\ KeyboardDevice_is_valid(keyboards_[1])
  /\ keyboards_[1].fd_ > kd_call.obj.fd_
  /\ TimesReleased(os_res, <<"fd", kd_call.obj.fd_>>) = 1

(* ================================================================== *)
(* Further properties of KeyboardState (checked under SpecKS)          *)
(* ================================================================== *)

(* C39: apply_key_event with a code of the keyboard table and a value *)
(* outside {0, 1, 2} returns false and leaves the modifier bitmap, the *)
(* pressed-key set and the dirty flag unchanged.                       *)
C39_UnknownValueIgnored ==
  /\ \A c \in {k \in KsCodes : InKeyboardTable(k)}, v \in KsValues \ {0, 1, 2} :
        apply_key_event(kb_state, c, v) = [st |-> kb_state, ret |-> FALSE]
  /\ (/\ ks_call.op = "apply_key_event"
      /\ InKeyboardTable(ks_call.args[1])
      /\ ks_call.args[2] \notin {0, 1, 2}) =>
        /\ ks_call.ret = <<FALSE>>
        /\ kb_state.pressed_keys_ = TruePressedKeys
        /\ kb_state.modifiers_ = FoldedModifiers

(* The key A is held and reported; an event for A with value 3 arrives. *)
C39_Witness ==
  /\ ks_call.op = "apply_key_event"
  /\ ks_call.args = <<KEY_A, 3>>
  /\ ks_call.ret = <<FALSE>>
  /\ ks_pending = 1
  /\ kKeyboardUsage[KEY_A] \in kb_state.pressed_keys_
  /\ ~is_dirty(kb_state)

(* The key codes in bytes 2..7 of a report. *)
ReportedKeys(rep) == {rep[i] : i \in 3..KEYBOARD_REPORT_SIZE} \ {0}

(* C35: once a held non-modifier key appears in bytes 2..7 of a report it  *)
(* appears in every later report until it is released or clear() is called: *)
(* here for two reports with one key call between them, which cannot both   *)
(* release and press a key again.                                           *)
C35_HeldKeyStaysReported ==
  [][(/\ ks_call'.op = "get_report"
      /\ ks_pending = 1
      /\ ks_call.op \in {"set_key_state", "apply_key_event"}) =>
        \A k \in kb_state.pressed_keys_ :
           k \in ReportedKeys(kb_state.report_) => k \in ReportedKeys(ks_call'.ret)]_vars

(* ------------------------------------------------------------------ *)
(* The keyboard table (checked under SpecKU)                           *)
(* ------------------------------------------------------------------ *)
(* KEY_LEFTCTRL, KEY_LEFTSHIFT, KEY_LEFTALT, KEY_LEFTMETA and their    *)
(* right-hand counterparts.                                            *)
ModifierKeyCodes == {KEY_LEFTCTRL, 42, KEY_LEFTALT, 125, KEY_RIGHTCTRL, 54, KEY_RIGHTALT, 126}

(* C31: the keyboard lookup is one to one: two lookups of distinct codes *)
(* of the table give distinct usages, the eight modifier key codes give  *)
(* the eight usages 0xE0..0xE7, one each, and no other code gives a      *)
(* usage in 0xE0..0xE7 or the usage 0.                                   *)
C31_LookupOneToOne ==
  /\ ks_call.op = "get_keyboard_usage" =>
        /\ ks_call.ret # <<0>>
        /\ (ks_call.ret # <<>> /\ is_modifier(ks_call.ret[1])) <=>
              ks_call.args[1] \in ModifierKeyCodes
        /\ (/\ ks_call.prev.op = "get_keyboard_usage"
            /\ ks_call.prev.args # ks_call.args
            /\ ks_call.ret # <<>>) => ks_call.prev.ret # ks_call.ret
  /\ {get_keyboard_usage(c)[1] : c \in ModifierKeyCodes} = MODIFIER_BASE..MODIFIER_MAX
  /\ Cardinality(ModifierKeyCodes) = 8

C31_Witness ==
  /\ ks_call.op = "get_keyboard_usage"
  /\ ks_call.args = <<KEY_RIGHTCTRL>>
  /\ ks_call.ret = <<MODIFIER_BASE + 4>>
  /\ ks_call.prev.op = "get_keyboard_usage"
  /\ ks_call.prev.args = <<KEY_LEFTCTRL>>
  /\ ks_call.prev.ret = <<MODIFIER_BASE>>

(* ------------------------------------------------------------------ *)
(* Further properties of the poll loop (checked under Spec)            *)
(* ------------------------------------------------------------------ *)
(* Signal numbers a handler can be called with. *)
Signals == 1..31

(* C32: the signal handler leaves a true running flag true for SIGINT, *)
(* makes it false for every other signal, and no step of the program  *)
(* makes a false running flag true again.                             *)
C32_SignalStopsForGood ==
  [][/\ ~g_running => ~g_running'
     /\ last_tick'.path = "sigint" => g_running' = g_running
     /\ last_tick'.path = "signal" => ~g_running'
     /\ \A signum \in Signals :
          /\ signal_handler(TRUE, signum) = (signum = SIGINT)
          /\ signal_handler(FALSE, signum) = FALSE]_vars

C32_Witness ==
  /\ last_tick.path = "sigint"
  /\ ~g_running
  /\ sendReport
  /\ ~app_quit

(* ------------------------------------------------------------------ *)
(* Further properties of the loop with hot-plug (checked under SpecMulti) *)
(* ------------------------------------------------------------------ *)
(* C38: while the running flag is false or no report sink is installed, *)
(* a tick sends no report and leaves the device collection, the queue   *)
(* of hot-plug notifications, the buffered key events, the keyboard     *)
(* state and the hotkey state unchanged.                                *)
C38_GuardedTickIsIdle ==
  [][/\ ((~g_running \/ ~sendReport) /\ Tick) =>
          /\ last_tick'.path = "guard"
          /\ last_tick'.log = <<>>
          /\ UNCHANGED <<keyboards_, udev_queue, evbuf, held, kb_state, hotkey_detector,
                         sink_last, g_running, app_quit>>
     /\ (last_tick' # last_tick /\ last_tick'.path \in {"nofds", "idle", "drained", "exit"}) =>
          g_running /\ sendReport]_vars

C38_Witness ==
  /\ last_tick.path = "guard"
  /\ ~sendReport
  /\ g_running
  /\ udev_queue # <<>>
  /\ \E d \in Paths : evbuf[d] # <<>>

(* ------------------------------------------------------------------ *)
(* The exit hotkey in the loop (checked under SpecExit)                *)
(* ------------------------------------------------------------------ *)
(* C34: in the tick where the exit hotkey triggers, the triggering event *)
(* is the last one read, it is not applied to the keyboard state, one    *)
(* all-zero report is sent for it and the running flag becomes false;    *)
(* the events buffered behind it stay unread, and from then on no step   *)
(* delivers a report or touches the keyboard state or the buffers.       *)
C34_ExitHotkeyEndsReporting ==
  [][/\ (~app_quit /\ app_quit' /\ last_tick'.path = "exit") =>
          LET log == last_tick'.log
              n == Len(log)
          IN /\ n >= 1
             /\ log[n].trig
             /\ \A k \in 1..(n - 1) : ~log[k].trig
             /\ log[n].sent = <<ZeroReport>>
             /\ sink_last' = ZeroReport
             /\ kb_state' = (IF n = 1 THEN kb_state ELSE log[n - 1].kb)
             /\ ~g_running'
             /\ \A d \in Paths :
                  evbuf'[d] = SubSeq(evbuf[d], Len(evbuf[d]) - Len(evbuf'[d]) + 1, Len(evbuf[d]))
             /\ Len(evbuf["/dev/input/event0"]) - Len(evbuf'["/dev/input/event0"]) = n
     /\ app_quit =>
          /\ ~g_running'
          /\ UNCHANGED <<sink_last, kb_state, hotkey_detector, evbuf, held, keyboards_>>]_vars

C34_Witness ==
  /\ app_quit
  /\ ~g_running
  /\ last_tick.path = "guard"
  /\ sink_last = ZeroReport
  /\ evbuf["/dev/input/event0"] # <<>>
  /\ kb_state.modifiers_ # 0

(* ------------------------------------------------------------------ *)
(* Left and right modifiers in the detector (checked under SpecHK)     *)
(* ------------------------------------------------------------------ *)
(* C36: whenever a Ctrl key (left or right) and an Alt key (left or right) *)
(* are down by the presses and releases the detector has seen, a press of *)
(* H triggers the exit hotkey (for event sequences a keyboard produces).  *)
C36_AnyCtrlAnyAltTriggers ==
  (/\ hk_call.kernel
   /\ hk_call.code = KEY_H
   /\ hk_call.value = 1
   /\ hk_call.down \cap {KEY_LEFTCTRL, KEY_RIGHTCTRL} # {}
   /\ hk_call.down \cap {KEY_LEFTALT, KEY_RIGHTALT} # {}) => hk_call.ret

(* Usage u is asserted in the report rep. *)
InReport(rep, u) ==
  IF is_modifier(u) THEN BitIsSet(rep[1], modifier_bit(u)) ELSE u \in ReportedKeys(rep)

(* C37: a key or modifier that was down on a keyboard when it was unplugged *)
(* is asserted in no report sent by a later tick, unless the same key has   *)
(* been pressed on another keyboard in the meantime.                        *)
C37_RemovedKeyboardReleased ==
  [][(budget' = budget /\ evbuf' # evbuf /\ last_tick'.path = "drained") =>
       LET log == last_tick'.log
           pressed == {log[k].code : k \in {j \in 1..Len(log) : log[j].value \in {1, 2}}}
       IN \A k \in 1..Len(log) : \A c \in budget.orphans :
            (/\ log[k].sent # <<>>
             /\ InKeyboardTable(c)
             /\ c \notin pressed
             /\ \A d \in Paths : c \notin held'[d]) =>
               ~InReport(log[k].sent[1], kKeyboardUsage[c])]_vars

(* ------------------------------------------------------------------ *)
(* The poll set of a collection of handles (checked under SpecKD)      *)
(* ------------------------------------------------------------------ *)
(* A monitor whose construction succeeded. *)
ValidMonitor == DeviceMonitor(0, NoResources).obj

(* C33: after any sequence of add_device and remove_device calls every  *)
(* handle of the collection is valid, and with a valid monitor          *)
(* get_poll_fds() has device_count() + 1 entries, entry i being the fd  *)
(* of keyboards()[i] and the last one the monitor fd.                   *)
C33_PollFdsAligned ==
  LET fds == get_poll_fds_of_handles(keyboards_, ValidMonitor) IN
  /\ \A i \in 1..Len(keyboards_) :
        /\ keyboards_[i].fd_ >= 0
        /\ keyboards_[i].evdev_ # NULL
        /\ ~keyboards_[i].moved_from
  /\ DeviceMonitor_is_valid(ValidMonitor)
  /\ Len(fds) = Len(keyboards_) + 1
  /\ \A i \in 1..Len(keyboards_) : fds[i] = keyboards_[i].fd_
  /\ fds[Len(fds)] = monitor_fd(ValidMonitor)
  /\ \A i, j \in 1..Len(fds) : i # j => fds[i] # fds[j]

C33_Witness ==
  /\ kd_call.op = "remove_device"
  /\ kd_call.path = "/dev/input/event0"
  /\ kd_call.released > 0
  /\ Len(keyboards_) = 1
  /\ keyboards_[1].path_ = "/dev/input/event1"
  /\ get_poll_fds_of_handles(keyboards_, ValidMonitor) = <<keyboards_[1].fd_, MonitorSocket>>

====
